---- MODULE Spec2Model ----
(***************************************************************************)
(* A model of switcheroo's catalog synchronization engine: the startup     *)
(* bulk scan, the filesystem watch loop, the periodic and the manual       *)
(* metadata sync (with its rescan), the catalog readers, the two locks     *)
(* (AppState.games, a std::sync::Mutex, and AppState.metadata, a           *)
(* tokio::sync::Mutex), the broadcast channel AppState.tx, and the         *)
(* MetadataProvider's sync()/load_local_data().                            *)
(***************************************************************************)
EXTENDS Integers, Sequences, FiniteSets, TLC

(***************************************************************************)
(* Bounds of the model.                                                    *)
(***************************************************************************)
\* filesystem operations the environment performs on the storage root
MaxFsOps == 2
\* firings of the periodic sync's interval (tasks.rs:16)
MaxTicks == 1
\* manual sync requests (POST to sync_metadata)
MaxManual == 1
\* filesystem operations while every lock user runs (LockSpec)
LockFsOps == 1
\* the bulk scan's batch size, 50 in tasks.rs:111, scaled down
BatchSize == 2
\* the broadcast channel's capacity, 100 in main.rs:697, scaled down
ChanCapacity == 2
\* filesystem operations under FairSpec and under ChanSpec
FairFsOps == 1
ChanFsOps == 1
\* keys in one title's version history
MaxKeys == 3
\* length in bytes of the compressed listing
MaxCompressedLen == 40

(***************************************************************************)
(* Paths under the storage root.  A path is its file stem and extension;   *)
(* process_entry looks at nothing else of the name.                        *)
(***************************************************************************)
PathA == [stem |-> "a", ext |-> "nsp"]
PathB == [stem |-> "b", ext |-> "XCI"]
PathN == [stem |-> "n", ext |-> "txt"]
Paths == {PathA, PathB, PathN}
\* WalkDir's visiting order of the storage root
WalkOrder == <<PathA, PathB, PathN>>
\* WalkDir::new(games_dir).into_iter(): the directory is listed when the
\* walk opens it, and the entries are then yielded one by one
WalkDir(fs) == SelectSeq(WalkOrder, LAMBDA p : p \in fs)
\* file sizes in bytes
Sizes == {1, 2}

\* Option<T>
None == <<>>
Some(x) == <<x>>

\* the tasks and handlers that take a lock
Procs == {"init", "periodic", "manual", "scan", "watch", "reader"}
NoOwner == "none"

\* str::to_lowercase on the extensions and title ids in use
to_lowercase(s) ==
  CASE s = "NSP" -> "nsp"
    [] s = "Nsz" -> "nsz"
    [] s = "xCz" -> "xcz"
    [] s = "0100AB" -> "0100ab"
    [] s = "0100Cd" -> "0100cd"
    [] s = "0100CD" -> "0100cd"
    [] s = "NSZ" -> "nsz"
    [] s = "XCI" -> "xci"
    [] s = "XCZ" -> "xcz"
    [] s = "TXT" -> "txt"
    [] OTHER -> s

valid_extensions == {"nsp", "nsz", "xci", "xcz"}

(***************************************************************************)
(* MetadataProvider: the two on-disk documents and the two in-memory maps. *)
(* A document is absent, empty, malformed ("bad") or holds dataset d0/d1;  *)
(* a map is empty ("none") or holds the records of dataset d0/d1.          *)
(***************************************************************************)
FileStates == {"absent", "empty", "bad", "d0", "d1"}
Datasets == {"d0", "d1"}
MapStates == {"none"} \cup Datasets

\* load_local_data: the titles map
load_titles(file, titles) ==
  IF file = "absent" THEN titles            \* !titles_path.exists()
  ELSE IF file = "empty" THEN titles        \* content.is_empty(): map kept
  ELSE IF file = "bad" THEN "none"          \* from_str fails: empty map stored
  ELSE file

\* load_local_data: the versions map
load_versions(file, versions) ==
  IF file \in Datasets THEN file ELSE versions

load_local_data(d, m) ==
  [titles |-> load_titles(d.titles, m.titles),
   versions |-> load_versions(d.versions, m.versions)]

(***************************************************************************)
(* MetadataProvider::sync.  What the remote source and the local disk do   *)
(* to one fetch is its outcome:                                            *)
(*   neterr      send() returned Err                                       *)
(*   status      a response with a non-success status                      *)
(*   createfail  success status, File::create failed                       *)
(*   streamerr   file created, the body stream yielded an error            *)
(*   writeerr    file created, write_all failed                            *)
(*   ok          the whole body was written                                *)
(* env = [mkdir, ver, t1, t2, body]: whether create_dir_all succeeds, the  *)
(* outcomes of the versions.json fetch, of the region/language document    *)
(* and of titles.json, and the dataset the remote source serves.           *)
(***************************************************************************)
FetchOutcomes == {"neterr", "status", "createfail", "streamerr", "writeerr", "ok"}

SyncEnvs ==
  [mkdir : BOOLEAN, ver : FetchOutcomes, t1 : FetchOutcomes,
   t2 : FetchOutcomes, body : Datasets]

\* the match arms that only warn!: Ok(resp) with a bad status, and Err(e)
FetchWarns(o) == o \in {"neterr", "status"}

\* the `?` operators inside the success arm
FetchReturnsErr(o) == o \in {"createfail", "streamerr", "writeerr"}

\* the destination file after one fetch
FileAfter(o, old, body) ==
  CASE o = "ok" -> body
    [] o = "streamerr" -> "bad"      \* truncated by File::create, body cut short
    [] o = "writeerr" -> "empty"     \* truncated by File::create, nothing written
    [] OTHER -> old

SyncReturn(d, m, res, steps) ==
  [disk |-> d, mem |-> m, result |-> res, steps |-> steps]

\* lines 144-145: load_local_data, then Ok(())
SyncFinish(d, m, steps) ==
  SyncReturn(d, load_local_data(d, m), "Ok", Append(steps, "load_local_data"))

\* lines 122-142: the loop over the two title URLs
SyncTitles(d, m, env, steps) ==
  LET s1 == Append(steps, "get_region")
      d1 == [d EXCEPT !.titles = FileAfter(env.t1, @, env.body)]
      s2 == Append(s1, "get_titles")
      d2 == [d1 EXCEPT !.titles = FileAfter(env.t2, @, env.body)]
  IN  IF FetchReturnsErr(env.t1) THEN SyncReturn(d1, m, "Err", s1)
      ELSE IF env.t1 = "ok" THEN SyncFinish(d1, m, s1)      \* break
      ELSE IF FetchReturnsErr(env.t2) THEN SyncReturn(d2, m, "Err", s2)
      ELSE SyncFinish(d2, m, s2)

\* versions.json with its warn! arms returning the error instead
SyncVersions_AbortOnWarn(d, m, env, steps) ==
  LET s1 == Append(steps, "get_versions")
      d1 == [d EXCEPT !.versions = FileAfter(env.ver, @, env.body)]
  IN  IF env.ver # "ok" THEN SyncReturn(d1, m, "Err", s1)
      ELSE SyncTitles(d1, m, env, s1)

\* lines 101-113: versions.json
SyncVersions(d, m, env, steps) ==
  LET s1 == Append(steps, "get_versions")
      d1 == [d EXCEPT !.versions = FileAfter(env.ver, @, env.body)]
  IN  IF FetchReturnsErr(env.ver) THEN SyncReturn(d1, m, "Err", s1)
      ELSE SyncTitles(d1, m, env, s1)

\* MetadataProvider::sync
sync(d, m, env) ==
  IF d.dir THEN SyncVersions(d, m, env, <<>>)
  ELSE IF ~env.mkdir THEN SyncReturn(d, m, "Err", <<"create_dir_all">>)
  ELSE SyncVersions([d EXCEPT !.dir = TRUE], m, env, <<"create_dir_all">>)

VARIABLES
  files,        \* the regular files present under games_dir
  fsize,        \* their sizes
  fsBudget,     \* filesystem operations left to the environment
  std_rx,       \* the watcher's notification channel (std::sync::mpsc)
  unwatched,    \* a change happened while no OS watch was attached
  games,        \* AppState.games: Vec<Game>
  gamesOwner,   \* holder of the std Mutex around games
  metaOwner,    \* holder of the tokio Mutex around metadata
  metaWaiters,  \* its FIFO wait queue
  pc,           \* each task's position
  disk,         \* data_dir/titledb: [dir, titles, versions]
  mem,          \* MetadataProvider.titles / .versions
  toWalk,       \* the paths a walk has still to visit, per walker
  batch,        \* bulk scan: batch; manual rescan: new_games
  total_count,  \* bulk scan: total_count
  stamps,       \* per walker, the metadata states its entries were built against
  w,            \* watch loop: the notification in hand and what it did
  sent,         \* every message given to tx.send, in order
  subs,         \* broadcast receivers: position in sent, or Closed
  ticksLeft,    \* interval firings left
  manualLeft,   \* manual sync requests left
  syncOut,      \* result of the last sync() per caller
  call          \* the last call of a library function: [fn, args, ret]

vars == <<files, fsize, fsBudget, std_rx, unwatched, games, gamesOwner, metaOwner,
          metaWaiters, pc, disk, mem, toWalk, batch, total_count, stamps, w,
          sent, subs, ticksLeft, manualLeft, syncOut, call>>

fsVars == <<files, fsize, fsBudget, std_rx, unwatched>>
lockVars == <<gamesOwner, metaOwner, metaWaiters>>
metaVars == <<disk, mem>>
walkVars == <<toWalk, batch, total_count, stamps>>
envVars == <<ticksLeft, manualLeft>>

(***************************************************************************)
(* scanner.rs                                                              *)
(***************************************************************************)
\* the extension compared as written
process_entry_CaseSensitive(path, fs, sz, m) ==
  IF path \notin fs THEN None
  ELSE IF path.ext \notin valid_extensions THEN None
  ELSE Some([path |-> path, size |-> sz[path],
             format |-> to_lowercase(path.ext), meta |-> m])

\* the metadata-derived fields of a Game (name, publisher, latest_version)
\* are those of the store's state m at the time of the call
process_entry(path, fs, sz, m) ==
  IF path \notin fs THEN None                               \* !path.is_file()
  ELSE IF to_lowercase(path.ext) \notin valid_extensions THEN None
  ELSE Some([path |-> path, size |-> sz[path],
             format |-> to_lowercase(path.ext), meta |-> m])

\* games.iter().position(|g| g.path == path)
position(gs, path) ==
  IF \E i \in 1..Len(gs) : gs[i].path = path
  THEN Some(CHOOSE i \in 1..Len(gs) :
              gs[i].path = path /\ \A j \in 1..(i - 1) : gs[j].path # path)
  ELSE None

\* Vec::remove(idx)
remove(gs, idx) == [i \in 1..(Len(gs) - 1) |-> IF i < idx THEN gs[i] ELSE gs[i + 1]]

(***************************************************************************)
(* The change events (serde_json::json! objects given to tx.send).         *)
(***************************************************************************)
NoPath == [stem |-> "", ext |-> ""]
Event(type, status, count, path, game) ==
  [type |-> type, status |-> status, count |-> count, path |-> path, game |-> game]
Scanning(n) == Event("scan", "scanning", n, NoPath, None)
ScanComplete(n) == Event("scan", "complete", n, NoPath, None)
EntryUpdated(g) == Event("scan", "update", 0, NoPath, Some(g))
EntryRemoved(path) == Event("scan", "remove", 0, path, None)
SyncComplete == Event("sync", "complete", 0, NoPath, None)

(***************************************************************************)
(* tokio::sync::broadcast: a sender never waits for a receiver; the        *)
(* channel keeps the last ChanCapacity messages.  `let _ = tx.send(..)`    *)
(* drops the result.                                                       *)
(***************************************************************************)
SubIds == {"sse1"}

\* a channel that makes the sender wait for its slowest receiver
tx_send_Bounded(msg) ==
  /\ \A s \in SubIds : subs[s].open => Len(sent) - subs[s].pos < ChanCapacity
  /\ sent' = Append(sent, msg)

tx_send(msg) == sent' = Append(sent, msg)

\* the oldest position a receiver can still read from
Oldest == IF Len(sent) > ChanCapacity THEN Len(sent) - ChanCapacity ELSE 0

(***************************************************************************)
(* The two locks.                                                          *)
(***************************************************************************)
\* metadata.lock().await / block_on(metadata.lock()): join the FIFO queue
MetaRequest(p) == metaWaiters' = Append(metaWaiters, p)

\* the lock is free and p is the first waiter
MetaCanLock(p) ==
  /\ metaOwner = NoOwner
  /\ metaWaiters # <<>>
  /\ Head(metaWaiters) = p

\* games.lock().unwrap()
GamesCanLock(p) == gamesOwner = NoOwner

Walkers == {"scan", "manual"}
NoEvent == [kind |-> "none", paths |-> <<>>]
WIdle == [ev |-> NoEvent, game |-> None, pubs |-> <<>>, tracked |-> FALSE]

InitialFiles == {{PathA, PathB}, {PathA}}
InitialDisk == [dir |-> TRUE, titles |-> "d0", versions |-> "d0"]

\* the remote source and the disk as the engine meets them: every fetch
\* succeeds (sync returns Ok and the store changes), or the title document
\* cannot be created (sync returns Err)
RemoteBehaviours ==
  {e \in SyncEnvs : /\ e.mkdir /\ e.body = "d1" /\ e.t2 = "neterr"
                    /\ e.ver = "ok"
                    /\ e.t1 \in {"ok", "createfail"}}

\* AppState and the tasks' state after main has built AppState and spawned
\* the tasks
BootEngine(nfs, fset) ==
  /\ files \in fset
  /\ fsize = [p \in Paths |-> 1]
  /\ fsBudget = nfs
  /\ std_rx = <<>>
  /\ unwatched = FALSE
  /\ games = <<>>
  /\ gamesOwner = NoOwner
  /\ metaOwner = NoOwner
  /\ metaWaiters = <<>>
  /\ pc = [p \in Procs |->
             CASE p = "init" -> "start"
               [] p = "periodic" -> "sleep"
               [] p = "manual" -> "idle"
               [] p = "scan" -> "start"
               [] p = "watch" -> "setup"
               [] p = "reader" -> "idle"]
  /\ disk = InitialDisk
  /\ mem = [titles |-> "none", versions |-> "none"]
  /\ toWalk = [x \in Walkers |-> <<>>]
  /\ batch = [x \in Walkers |-> <<>>]
  /\ total_count = 0
  /\ stamps = [x \in Walkers |-> {}]
  /\ w = WIdle
  /\ sent = <<>>
  /\ subs = [s \in SubIds |-> [open |-> FALSE, pos |-> 0, ended |-> FALSE]]
  /\ ticksLeft = MaxTicks
  /\ manualLeft = MaxManual
  /\ syncOut = None

\* the state after main has built AppState and spawned the tasks
Boot(nfs, fset) == BootEngine(nfs, fset) /\ call = None

(***************************************************************************)
(* The environment: the filesystem under games_dir.  The OS watch reports  *)
(* a change once the watcher is attached.                                  *)
(***************************************************************************)
FsFrame ==
  UNCHANGED <<games, lockVars, pc, metaVars, walkVars, w, sent, subs,
              envVars, syncOut, call>>

Watching == pc["watch"] \notin {"setup", "dead"}

Notify(kind, paths) ==
  /\ std_rx' = IF Watching THEN Append(std_rx, [kind |-> kind, paths |-> paths])
               ELSE std_rx
  /\ unwatched' = (unwatched \/ ~Watching)

FsCreate(p) ==
  /\ fsBudget > 0 /\ p \notin files
  /\ files' = files \cup {p}
  /\ fsize' = fsize
  /\ fsBudget' = fsBudget - 1
  /\ FsFrame
  /\ Notify("create", <<p>>)

FsModify(p) ==
  /\ fsBudget > 0 /\ p \in files
  /\ \E s \in Sizes \ {fsize[p]} : fsize' = [fsize EXCEPT ![p] = s]
  /\ files' = files
  /\ fsBudget' = fsBudget - 1
  /\ FsFrame
  /\ Notify("modify", <<p>>)

FsRemove(p) ==
  /\ fsBudget > 0 /\ p \in files
  /\ files' = files \ {p}
  /\ fsize' = [fsize EXCEPT ![p] = 1]
  /\ fsBudget' = fsBudget - 1
  /\ FsFrame
  /\ Notify("remove", <<p>>)

FsRename(a, b) ==
  /\ fsBudget > 0 /\ a \in files /\ a # b
  /\ files' = (files \ {a}) \cup {b}
  /\ fsize' = [fsize EXCEPT ![b] = fsize[a], ![a] = 1]
  /\ fsBudget' = fsBudget - 1
  /\ FsFrame
  /\ Notify("rename", <<a, b>>)

\* a notification of another kind (EventKind::Access)
FsAccess(p) ==
  /\ fsBudget > 0 /\ p \in files
  /\ UNCHANGED <<files, fsize>>
  /\ fsBudget' = fsBudget - 1
  /\ FsFrame
  /\ Notify("other", <<p>>)

(***************************************************************************)
(* main.rs 733-753: the metadata initialization task.                      *)
(***************************************************************************)
InitRequest ==
  /\ pc["init"] = "start"
  /\ MetaRequest("init")
  /\ pc' = [pc EXCEPT !["init"] = "waitMeta"]
  /\ UNCHANGED <<fsVars, games, gamesOwner, metaOwner, metaVars, walkVars, w,
                 sent, subs, envVars, syncOut, call>>

\* meta.init(): load_local_data under the lock, released at the block's end
InitLoad ==
  /\ pc["init"] = "waitMeta"
  /\ MetaCanLock("init")
  /\ metaWaiters' = Tail(metaWaiters)
  /\ mem' = load_local_data(disk, mem)
  /\ pc' = [pc EXCEPT !["init"] = "done"]
  /\ UNCHANGED <<fsVars, games, gamesOwner, metaOwner, disk, walkVars, w,
                 sent, subs, envVars, syncOut, call>>

(***************************************************************************)
(* tasks.rs 12-33: the periodic metadata sync.                             *)
(***************************************************************************)
\* interval.tick().await returns; metadata.lock().await
PeriodicTick ==
  /\ pc["periodic"] = "sleep"
  /\ ticksLeft > 0
  /\ ticksLeft' = ticksLeft - 1
  /\ MetaRequest("periodic")
  /\ pc' = [pc EXCEPT !["periodic"] = "waitMeta"]
  /\ UNCHANGED <<fsVars, games, gamesOwner, metaOwner, metaVars, walkVars, w,
                 sent, subs, manualLeft, syncOut, call>>

\* the periodic sync calling sync() without waiting for the metadata lock
PeriodicLockMeta_NoLock ==
  /\ pc["periodic"] = "waitMeta"
  /\ metaWaiters' = SelectSeq(metaWaiters, LAMBDA q : q # "periodic")
  /\ pc' = [pc EXCEPT !["periodic"] = "net"]
  /\ UNCHANGED <<fsVars, games, gamesOwner, metaOwner, metaVars, walkVars, w,
                 sent, subs, envVars, syncOut, call>>

\* the lock is granted; sync() starts and awaits the remote source
PeriodicLockMeta ==
  /\ pc["periodic"] = "waitMeta"
  /\ MetaCanLock("periodic")
  /\ metaOwner' = "periodic"
  /\ metaWaiters' = Tail(metaWaiters)
  /\ pc' = [pc EXCEPT !["periodic"] = "net"]
  /\ UNCHANGED <<fsVars, games, gamesOwner, metaVars, walkVars, w, sent, subs,
                 envVars, syncOut, call>>

\* a periodic sync that sends its event whatever sync() returned
PeriodicSyncDone_AlwaysSend(env) ==
  /\ pc["periodic"] = "net"
  /\ LET r == sync(disk, mem, env)
     IN  /\ disk' = r.disk
         /\ mem' = r.mem
         /\ syncOut' = Some([caller |-> "periodic", env |-> env,
                             result |-> r.result, steps |-> r.steps])
         /\ tx_send(SyncComplete)
  /\ metaOwner' = NoOwner
  /\ pc' = [pc EXCEPT !["periodic"] = "sleep"]
  /\ UNCHANGED <<fsVars, games, gamesOwner, metaWaiters, walkVars, w, subs,
                 envVars, call>>

\* the remote source answers: sync() returns, the event is sent on Ok,
\* drop(meta)
PeriodicSyncDone(env) ==
  /\ pc["periodic"] = "net"
  /\ LET r == sync(disk, mem, env)
     IN  /\ disk' = r.disk
         /\ mem' = r.mem
         /\ syncOut' = Some([caller |-> "periodic", env |-> env,
                             result |-> r.result, steps |-> r.steps])
         /\ IF r.result = "Ok" THEN tx_send(SyncComplete) ELSE sent' = sent
  /\ metaOwner' = NoOwner
  /\ pc' = [pc EXCEPT !["periodic"] = "sleep"]
  /\ UNCHANGED <<fsVars, games, gamesOwner, metaWaiters, walkVars, w, subs,
                 envVars, call>>

(***************************************************************************)
(* handlers/api.rs 38-79: sync_metadata, the manual sync and its rescan.   *)
(***************************************************************************)
\* the request spawns the task; metadata.lock().await (line 48)
ManualRequest ==
  /\ pc["manual"] = "idle"
  /\ manualLeft > 0
  /\ manualLeft' = manualLeft - 1
  /\ MetaRequest("manual")
  /\ pc' = [pc EXCEPT !["manual"] = "waitMeta"]
  /\ UNCHANGED <<fsVars, games, gamesOwner, metaOwner, metaVars, walkVars, w,
                 sent, subs, ticksLeft, syncOut, call>>

\* the manual sync calling sync() without waiting for the metadata lock
ManualLockMeta_NoLock ==
  /\ pc["manual"] = "waitMeta"
  /\ metaWaiters' = SelectSeq(metaWaiters, LAMBDA q : q # "manual")
  /\ pc' = [pc EXCEPT !["manual"] = "net"]
  /\ UNCHANGED <<fsVars, games, gamesOwner, metaOwner, metaVars, walkVars, w,
                 sent, subs, envVars, syncOut, call>>

ManualLockMeta ==
  /\ pc["manual"] = "waitMeta"
  /\ MetaCanLock("manual")
  /\ metaOwner' = "manual"
  /\ metaWaiters' = Tail(metaWaiters)
  /\ pc' = [pc EXCEPT !["manual"] = "net"]
  /\ UNCHANGED <<fsVars, games, gamesOwner, metaVars, walkVars, w, sent, subs,
                 envVars, syncOut, call>>

\* sync() returns; the guard is dropped at line 53; on Err the task returns,
\* on Ok it asks for the lock again (line 57)
ManualSyncDone(env) ==
  /\ pc["manual"] = "net"
  /\ LET r == sync(disk, mem, env)
     IN  /\ disk' = r.disk
         /\ mem' = r.mem
         /\ syncOut' = Some([caller |-> "manual", env |-> env,
                             result |-> r.result, steps |-> r.steps])
         /\ IF r.result = "Ok"
            THEN /\ MetaRequest("manual")
                 /\ pc' = [pc EXCEPT !["manual"] = "waitMeta2"]
            ELSE /\ metaWaiters' = metaWaiters
                 /\ pc' = [pc EXCEPT !["manual"] = "idle"]
  /\ metaOwner' = NoOwner
  /\ UNCHANGED <<fsVars, games, gamesOwner, walkVars, w, sent, subs, envVars,
                 call>>

\* line 57-59: the lock is granted, the walk starts
ManualLockMeta2 ==
  /\ pc["manual"] = "waitMeta2"
  /\ MetaCanLock("manual")
  /\ metaOwner' = "manual"
  /\ metaWaiters' = Tail(metaWaiters)
  /\ toWalk' = [toWalk EXCEPT !["manual"] = WalkDir(files)]
  /\ batch' = [batch EXCEPT !["manual"] = <<>>]
  /\ stamps' = [stamps EXCEPT !["manual"] = {}]
  /\ pc' = [pc EXCEPT !["manual"] = "walk"]
  /\ UNCHANGED <<fsVars, games, gamesOwner, metaVars, total_count, w, sent,
                 subs, envVars, syncOut, call>>

\* lines 59-63: one directory entry
ManualVisit ==
  /\ pc["manual"] = "walk"
  /\ toWalk["manual"] # <<>>
  /\ LET g == process_entry(Head(toWalk["manual"]), files, fsize, mem)
     IN  /\ batch' = [batch EXCEPT !["manual"] = @ \o g]
         /\ stamps' = [stamps EXCEPT !["manual"] =
                         IF g = None THEN @ ELSE @ \cup {mem}]
  /\ toWalk' = [toWalk EXCEPT !["manual"] = Tail(@)]
  /\ UNCHANGED <<fsVars, games, lockVars, pc, metaVars, total_count, w, sent,
                 subs, envVars, syncOut, call>>

\* line 64: games.lock().unwrap()
ManualLockGames ==
  /\ pc["manual"] = "walk"
  /\ toWalk["manual"] = <<>>
  /\ GamesCanLock("manual")
  /\ gamesOwner' = "manual"
  /\ pc' = [pc EXCEPT !["manual"] = "replace"]
  /\ UNCHANGED <<fsVars, games, metaOwner, metaWaiters, metaVars, walkVars, w,
                 sent, subs, envVars, syncOut, call>>

\* lines 65-75: *g_lock = new_games; drop(g_lock); send; the task ends
ManualReplace ==
  /\ pc["manual"] = "replace"
  /\ games' = batch["manual"]
  /\ batch' = [batch EXCEPT !["manual"] = <<>>]
  /\ gamesOwner' = NoOwner
  /\ tx_send(ScanComplete(0))
  /\ metaOwner' = NoOwner
  /\ pc' = [pc EXCEPT !["manual"] = "idle"]
  /\ UNCHANGED <<fsVars, metaWaiters, metaVars, toWalk, total_count, stamps,
                 w, subs, envVars, syncOut, call>>

(***************************************************************************)
(* tasks.rs 74-147: the startup bulk scan.                                 *)
(***************************************************************************)
\* lines 83-96: send Scanning{0}; block_on(metadata.lock())
ScanStart ==
  /\ pc["scan"] = "start"
  /\ tx_send(Scanning(0))
  /\ MetaRequest("scan")
  /\ pc' = [pc EXCEPT !["scan"] = "waitMeta"]
  /\ UNCHANGED <<fsVars, games, gamesOwner, metaOwner, metaVars, walkVars, w,
                 subs, envVars, syncOut, call>>

\* line 96-98: the guard is held from here to the end of the closure
ScanLockMeta ==
  /\ pc["scan"] = "waitMeta"
  /\ MetaCanLock("scan")
  /\ metaOwner' = "scan"
  /\ metaWaiters' = Tail(metaWaiters)
  /\ toWalk' = [toWalk EXCEPT !["scan"] = WalkDir(files)]
  /\ pc' = [pc EXCEPT !["scan"] = "walk"]
  /\ UNCHANGED <<fsVars, games, gamesOwner, metaVars, batch, total_count,
                 stamps, w, sent, subs, envVars, syncOut, call>>

\* lines 98-111: one directory entry
ScanVisit ==
  /\ pc["scan"] = "walk"
  /\ toWalk["scan"] # <<>>
  /\ LET g == process_entry(Head(toWalk["scan"]), files, fsize, mem)
         b == batch["scan"] \o g
     IN  /\ batch' = [batch EXCEPT !["scan"] = b]
         /\ total_count' = total_count + Len(g)
         /\ stamps' = [stamps EXCEPT !["scan"] =
                         IF g = None THEN @ ELSE @ \cup {mem}]
         /\ pc' = [pc EXCEPT !["scan"] =
                     IF g # None /\ Len(b) >= BatchSize THEN "drainLock" ELSE "walk"]
  /\ toWalk' = [toWalk EXCEPT !["scan"] = Tail(@)]
  /\ UNCHANGED <<fsVars, games, lockVars, metaVars, w, sent, subs, envVars,
                 syncOut, call>>

\* line 112: games.lock().unwrap()
ScanLockGames ==
  /\ pc["scan"] = "drainLock"
  /\ GamesCanLock("scan")
  /\ gamesOwner' = "scan"
  /\ pc' = [pc EXCEPT !["scan"] = "drain"]
  /\ UNCHANGED <<fsVars, games, metaOwner, metaWaiters, metaVars, walkVars, w,
                 sent, subs, envVars, syncOut, call>>

\* a drain that appends one entry of the batch and lets the lock go
ScanDrain_Half ==
  /\ pc["scan"] = "drain"
  /\ games' = Append(games, Head(batch["scan"]))
  /\ batch' = [batch EXCEPT !["scan"] = Tail(@)]
  /\ gamesOwner' = NoOwner
  /\ tx_send(Scanning(total_count))
  /\ pc' = [pc EXCEPT !["scan"] = "walk"]
  /\ UNCHANGED <<fsVars, metaOwner, metaWaiters, metaVars, toWalk,
                 total_count, stamps, w, subs, envVars, syncOut, call>>

\* a drain that publishes no progress event
ScanDrain_Silent ==
  /\ pc["scan"] = "drain"
  /\ games' = games \o batch["scan"]
  /\ batch' = [batch EXCEPT !["scan"] = <<>>]
  /\ gamesOwner' = NoOwner
  /\ pc' = [pc EXCEPT !["scan"] = "walk"]
  /\ UNCHANGED <<fsVars, metaOwner, metaWaiters, metaVars, toWalk,
                 total_count, stamps, w, sent, subs, envVars, syncOut, call>>

\* lines 113-123: extend(batch.drain(..)); drop(g_lock); send Scanning{total}
ScanDrain ==
  /\ pc["scan"] = "drain"
  /\ games' = games \o batch["scan"]
  /\ batch' = [batch EXCEPT !["scan"] = <<>>]
  /\ gamesOwner' = NoOwner
  /\ tx_send(Scanning(total_count))
  /\ pc' = [pc EXCEPT !["scan"] = "walk"]
  /\ UNCHANGED <<fsVars, metaOwner, metaWaiters, metaVars, toWalk,
                 total_count, stamps, w, subs, envVars, syncOut, call>>

\* lines 128-129: the walk is over; lock for the last partial batch
ScanLockFlush ==
  /\ pc["scan"] = "walk"
  /\ toWalk["scan"] = <<>>
  /\ batch["scan"] # <<>>
  /\ GamesCanLock("scan")
  /\ gamesOwner' = "scan"
  /\ pc' = [pc EXCEPT !["scan"] = "flush"]
  /\ UNCHANGED <<fsVars, games, metaOwner, metaWaiters, metaVars, walkVars, w,
                 sent, subs, envVars, syncOut, call>>

\* lines 130-131
ScanFlush ==
  /\ pc["scan"] = "flush"
  /\ games' = games \o batch["scan"]
  /\ batch' = [batch EXCEPT !["scan"] = <<>>]
  /\ gamesOwner' = NoOwner
  /\ pc' = [pc EXCEPT !["scan"] = "walk"]
  /\ UNCHANGED <<fsVars, metaOwner, metaWaiters, metaVars, toWalk,
                 total_count, stamps, w, sent, subs, envVars, syncOut, call>>

\* lines 139-147: send ScanComplete{total}; the metadata guard is dropped
ScanComplete_ ==
  /\ pc["scan"] = "walk"
  /\ toWalk["scan"] = <<>>
  /\ batch["scan"] = <<>>
  /\ tx_send(ScanComplete(total_count))
  /\ metaOwner' = NoOwner
  /\ pc' = [pc EXCEPT !["scan"] = "done"]
  /\ UNCHANGED <<fsVars, games, gamesOwner, metaWaiters, metaVars, walkVars,
                 w, subs, envVars, syncOut, call>>

(***************************************************************************)
(* tasks.rs 149-241: the file watcher task.                                *)
(***************************************************************************)
\* a setup failure that ends the whole process
WatchSetup_Abort(ok) ==
  /\ pc["watch"] = "setup"
  /\ pc' = IF ok THEN [pc EXCEPT !["watch"] = "idle"]
           ELSE [p \in Procs |-> "dead"]
  /\ UNCHANGED <<fsVars, games, lockVars, metaVars, walkVars, w, sent, subs,
                 envVars, syncOut, call>>

\* lines 152-158: RecommendedWatcher::new(..).expect, watch(..).expect
WatchSetup(ok) ==
  /\ pc["watch"] = "setup"
  /\ pc' = [pc EXCEPT !["watch"] = IF ok THEN "idle" ELSE "dead"]
  /\ UNCHANGED <<fsVars, games, lockVars, metaVars, walkVars, w, sent, subs,
                 envVars, syncOut, call>>

Publish(msg) ==
  /\ tx_send(msg)
  /\ w' = [w EXCEPT !.pubs = Append(@, msg)]

\* a loop that takes every notification but a remove for a create or modify
WatchRecv_AnyKind ==
  /\ pc["watch"] = "idle"
  /\ std_rx # <<>>
  /\ LET ev == Head(std_rx)
         k == ev.kind
     IN  /\ w' = [WIdle EXCEPT !.ev = ev]
         /\ IF k = "rename" /\ Len(ev.paths) = 2
            THEN /\ pc' = [pc EXCEPT !["watch"] = "rnLock1"]
                 /\ metaWaiters' = metaWaiters
            ELSE IF k # "remove" /\ ev.paths[1] \in files
            THEN /\ pc' = [pc EXCEPT !["watch"] = "cmWaitMeta"]
                 /\ MetaRequest("watch")
            ELSE IF k = "remove"
            THEN /\ pc' = [pc EXCEPT !["watch"] = "rmLock"]
                 /\ metaWaiters' = metaWaiters
            ELSE /\ pc' = pc
                 /\ metaWaiters' = metaWaiters
  /\ std_rx' = Tail(std_rx)
  /\ UNCHANGED <<files, fsize, fsBudget, unwatched, games, gamesOwner,
                 metaOwner, metaVars, walkVars, sent, subs, envVars, syncOut, call>>

\* a loop that takes the newest notification first
WatchRecv_Newest ==
  /\ pc["watch"] = "idle"
  /\ std_rx # <<>>
  /\ LET ev == std_rx[Len(std_rx)]
         k == ev.kind
     IN  /\ w' = [WIdle EXCEPT !.ev = ev]
         /\ IF k = "rename" /\ Len(ev.paths) = 2
            THEN /\ pc' = [pc EXCEPT !["watch"] = "rnLock1"]
                 /\ metaWaiters' = metaWaiters
            ELSE IF k \in {"create", "modify"} /\ ev.paths[1] \in files
            THEN /\ pc' = [pc EXCEPT !["watch"] = "cmWaitMeta"]
                 /\ MetaRequest("watch")
            ELSE IF k = "remove"
            THEN /\ pc' = [pc EXCEPT !["watch"] = "rmLock"]
                 /\ metaWaiters' = metaWaiters
            ELSE /\ pc' = pc
                 /\ metaWaiters' = metaWaiters
  /\ std_rx' = SubSeq(std_rx, 1, Len(std_rx) - 1)
  /\ UNCHANGED <<files, fsize, fsBudget, unwatched, games, gamesOwner,
                 metaOwner, metaVars, walkVars, sent, subs, envVars, syncOut, call>>

\* lines 164-173, 201-205, 226-228: the next notification and its match arm
WatchRecv ==
  /\ pc["watch"] = "idle"
  /\ std_rx # <<>>
  /\ LET ev == Head(std_rx)
         k == ev.kind
     IN  /\ w' = [WIdle EXCEPT !.ev = ev]
         /\ IF k = "rename" /\ Len(ev.paths) = 2
            THEN /\ pc' = [pc EXCEPT !["watch"] = "rnLock1"]
                 /\ metaWaiters' = metaWaiters
            ELSE IF k \in {"create", "modify"} /\ ev.paths[1] \in files
            THEN /\ pc' = [pc EXCEPT !["watch"] = "cmWaitMeta"]
                 /\ MetaRequest("watch")
            ELSE IF k = "remove"
            THEN /\ pc' = [pc EXCEPT !["watch"] = "rmLock"]
                 /\ metaWaiters' = metaWaiters
            ELSE /\ pc' = pc
                 /\ metaWaiters' = metaWaiters
  /\ std_rx' = Tail(std_rx)
  /\ UNCHANGED <<files, fsize, fsBudget, unwatched, games, gamesOwner,
                 metaOwner, metaVars, walkVars, sent, subs, envVars, syncOut, call>>

\* line 174
WatchRnLock1 ==
  /\ pc["watch"] = "rnLock1"
  /\ GamesCanLock("watch")
  /\ gamesOwner' = "watch"
  /\ pc' = [pc EXCEPT !["watch"] = "rnRemove"]
  /\ UNCHANGED <<fsVars, games, metaOwner, metaWaiters, metaVars, walkVars, w,
                 sent, subs, envVars, syncOut, call>>

\* the rename arm without drop(games) before block_on(metadata.lock())
WatchRnRemove_KeepGuard ==
  /\ pc["watch"] = "rnRemove"
  /\ LET idx == position(games, w.ev.paths[1])
     IN  IF idx # None
         THEN /\ games' = remove(games, idx[1])
              /\ tx_send(EntryRemoved(w.ev.paths[1]))
              /\ w' = [w EXCEPT !.pubs = Append(@, EntryRemoved(w.ev.paths[1])),
                                !.tracked = TRUE]
         ELSE UNCHANGED <<games, sent, w>>
  /\ MetaRequest("watch")
  /\ pc' = [pc EXCEPT !["watch"] = "rnWaitMeta"]
  /\ UNCHANGED <<fsVars, gamesOwner, metaOwner, metaVars, walkVars, subs,
                 envVars, syncOut, call>>

\* lines 175-185: remove the from entry, send, drop(games),
\* block_on(metadata.lock())
WatchRnRemove ==
  /\ pc["watch"] = "rnRemove"
  /\ LET idx == position(games, w.ev.paths[1])
     IN  IF idx # None
         THEN /\ games' = remove(games, idx[1])
              /\ tx_send(EntryRemoved(w.ev.paths[1]))
              /\ w' = [w EXCEPT !.pubs = Append(@, EntryRemoved(w.ev.paths[1])),
                                !.tracked = TRUE]
         ELSE UNCHANGED <<games, sent, w>>
  /\ gamesOwner' = NoOwner
  /\ MetaRequest("watch")
  /\ pc' = [pc EXCEPT !["watch"] = "rnWaitMeta"]
  /\ UNCHANGED <<fsVars, metaOwner, metaVars, walkVars, subs, envVars, syncOut, call>>

\* lines 185-191: the lock is granted; process_entry(to)
WatchRnBuild ==
  /\ pc["watch"] = "rnWaitMeta"
  /\ MetaCanLock("watch")
  /\ metaWaiters' = Tail(metaWaiters)
  /\ LET g == process_entry(w.ev.paths[2], files, fsize, mem)
     IN  /\ w' = [w EXCEPT !.game = g]
         /\ IF g # None
            THEN /\ metaOwner' = "watch"
                 /\ pc' = [pc EXCEPT !["watch"] = "rnLock2"]
            ELSE /\ metaOwner' = NoOwner
                 /\ pc' = [pc EXCEPT !["watch"] = "idle"]
  /\ UNCHANGED <<fsVars, games, gamesOwner, metaVars, walkVars, sent, subs,
                 envVars, syncOut, call>>

\* line 192
WatchRnLock2 ==
  /\ pc["watch"] = "rnLock2"
  /\ GamesCanLock("watch")
  /\ gamesOwner' = "watch"
  /\ pc' = [pc EXCEPT !["watch"] = "rnPush"]
  /\ UNCHANGED <<fsVars, games, metaOwner, metaWaiters, metaVars, walkVars, w,
                 sent, subs, envVars, syncOut, call>>

\* the rename arm without its second send
WatchRnPush_NoSend ==
  /\ pc["watch"] = "rnPush"
  /\ games' = Append(games, w.game[1])
  /\ gamesOwner' = NoOwner
  /\ metaOwner' = NoOwner
  /\ pc' = [pc EXCEPT !["watch"] = "idle"]
  /\ UNCHANGED <<fsVars, metaWaiters, metaVars, walkVars, w, sent, subs,
                 envVars, syncOut, call>>

\* lines 193-199: push, send; both guards dropped
WatchRnPush ==
  /\ pc["watch"] = "rnPush"
  /\ games' = Append(games, w.game[1])
  /\ Publish(EntryUpdated(w.game[1]))
  /\ gamesOwner' = NoOwner
  /\ metaOwner' = NoOwner
  /\ pc' = [pc EXCEPT !["watch"] = "idle"]
  /\ UNCHANGED <<fsVars, metaWaiters, metaVars, walkVars, subs, envVars,
                 syncOut, call>>

\* the create/modify arm building its entry without the metadata lock
WatchCmBuild_NoGuard ==
  /\ pc["watch"] = "cmWaitMeta"
  /\ metaWaiters' = SelectSeq(metaWaiters, LAMBDA q : q # "watch")
  /\ LET g == process_entry(w.ev.paths[1], files, fsize, mem)
     IN  /\ w' = [w EXCEPT !.game = g]
         /\ pc' = [pc EXCEPT !["watch"] = IF g # None THEN "cmLock" ELSE "idle"]
  /\ UNCHANGED <<fsVars, games, gamesOwner, metaOwner, metaVars, walkVars, sent,
                 subs, envVars, syncOut, call>>

\* lines 205-211: the lock is granted; process_entry(path)
WatchCmBuild ==
  /\ pc["watch"] = "cmWaitMeta"
  /\ MetaCanLock("watch")
  /\ metaWaiters' = Tail(metaWaiters)
  /\ LET g == process_entry(w.ev.paths[1], files, fsize, mem)
     IN  /\ w' = [w EXCEPT !.game = g]
         /\ IF g # None
            THEN /\ metaOwner' = "watch"
                 /\ pc' = [pc EXCEPT !["watch"] = "cmLock"]
            ELSE /\ metaOwner' = NoOwner
                 /\ pc' = [pc EXCEPT !["watch"] = "idle"]
  /\ UNCHANGED <<fsVars, games, gamesOwner, metaVars, walkVars, sent, subs,
                 envVars, syncOut, call>>

\* line 212
WatchCmLock ==
  /\ pc["watch"] = "cmLock"
  /\ GamesCanLock("watch")
  /\ gamesOwner' = "watch"
  /\ pc' = [pc EXCEPT !["watch"] = "cmUpsert"]
  /\ UNCHANGED <<fsVars, games, metaOwner, metaWaiters, metaVars, walkVars, w,
                 sent, subs, envVars, syncOut, call>>

\* the create/modify arm pushing as the rename arm does
WatchCmUpsert_Push ==
  /\ pc["watch"] = "cmUpsert"
  /\ games' = Append(games, w.game[1])
  /\ Publish(EntryUpdated(w.game[1]))
  /\ gamesOwner' = NoOwner
  /\ metaOwner' = NoOwner
  /\ pc' = [pc EXCEPT !["watch"] = "idle"]
  /\ UNCHANGED <<fsVars, metaWaiters, metaVars, walkVars, subs, envVars,
                 syncOut, call>>

\* lines 213-223: replace in place or push, send; both guards dropped
WatchCmUpsert ==
  /\ pc["watch"] = "cmUpsert"
  /\ LET g == w.game[1]
         idx == position(games, g.path)
     IN  games' = IF idx # None THEN [games EXCEPT ![idx[1]] = g]
                  ELSE Append(games, g)
  /\ Publish(EntryUpdated(w.game[1]))
  /\ gamesOwner' = NoOwner
  /\ metaOwner' = NoOwner
  /\ pc' = [pc EXCEPT !["watch"] = "idle"]
  /\ UNCHANGED <<fsVars, metaWaiters, metaVars, walkVars, subs, envVars,
                 syncOut, call>>

\* line 228
WatchRmLock ==
  /\ pc["watch"] = "rmLock"
  /\ GamesCanLock("watch")
  /\ gamesOwner' = "watch"
  /\ pc' = [pc EXCEPT !["watch"] = "rmRemove"]
  /\ UNCHANGED <<fsVars, games, metaOwner, metaWaiters, metaVars, walkVars, w,
                 sent, subs, envVars, syncOut, call>>

\* lines 229-236
WatchRmRemove ==
  /\ pc["watch"] = "rmRemove"
  /\ LET idx == position(games, w.ev.paths[1])
     IN  IF idx # None
         THEN /\ games' = remove(games, idx[1])
              /\ Publish(EntryRemoved(w.ev.paths[1]))
         ELSE UNCHANGED <<games, sent, w>>
  /\ gamesOwner' = NoOwner
  /\ pc' = [pc EXCEPT !["watch"] = "idle"]
  /\ UNCHANGED <<fsVars, metaOwner, metaWaiters, metaVars, walkVars, subs,
                 envVars, syncOut, call>>

(***************************************************************************)
(* The catalog readers: list_games (api.rs 33-36), dbi_index (dbi.rs 5-22) *)
(* and tinfoil_index (tinfoil.rs 13-58).  Each locks games, computes its   *)
(* response without awaiting anything, and drops the guard on return.      *)
(***************************************************************************)
\* a listing handler that asks for the metadata lock under the games guard
ReaderLock_ThenMeta ==
  /\ pc["reader"] = "idle"
  /\ GamesCanLock("reader")
  /\ gamesOwner' = "reader"
  /\ MetaRequest("reader")
  /\ pc' = [pc EXCEPT !["reader"] = "read"]
  /\ UNCHANGED <<fsVars, games, metaOwner, metaVars, walkVars, w, sent, subs,
                 envVars, syncOut, call>>

ReaderLock ==
  /\ pc["reader"] = "idle"
  /\ GamesCanLock("reader")
  /\ gamesOwner' = "reader"
  /\ pc' = [pc EXCEPT !["reader"] = "read"]
  /\ UNCHANGED <<fsVars, games, metaOwner, metaWaiters, metaVars, walkVars, w,
                 sent, subs, envVars, syncOut, call>>

ReaderReturn ==
  /\ pc["reader"] = "read"
  /\ gamesOwner' = NoOwner
  /\ pc' = [pc EXCEPT !["reader"] = "idle"]
  /\ UNCHANGED <<fsVars, games, metaOwner, metaWaiters, metaVars, walkVars, w,
                 sent, subs, envVars, syncOut, call>>

(***************************************************************************)
(* handlers/api.rs 81-91: sse_handler, a receiver of the broadcast channel *)
(***************************************************************************)
SubFrame ==
  UNCHANGED <<fsVars, games, lockVars, pc, metaVars, walkVars, w, sent,
              envVars, syncOut, call>>

\* tx.subscribe(): the receiver sees what is sent from now on
Subscribe(s) ==
  /\ ~subs[s].open
  /\ subs' = [subs EXCEPT ![s] = [open |-> TRUE, pos |-> Len(sent), ended |-> FALSE]]
  /\ SubFrame

\* the client goes away and the stream is dropped
Unsubscribe(s) ==
  /\ subs[s].open
  /\ subs' = [subs EXCEPT ![s] = [open |-> FALSE, pos |-> 0, ended |-> FALSE]]
  /\ SubFrame

\* the stream's next item: Err(Lagged) when the receiver fell behind (it
\* resumes from the oldest message kept, and the stream goes on with a
\* keepalive comment), otherwise the next message
SubRecv(s) ==
  /\ subs[s].open /\ ~subs[s].ended
  /\ subs[s].pos < Len(sent)
  /\ subs' = [subs EXCEPT ![s].pos = IF @ < Oldest THEN Oldest ELSE @ + 1]
  /\ SubFrame

\* a notification Modify(Name(Both)) that carries one path only
FsRenameHalf(p) ==
  /\ fsBudget > 0
  /\ UNCHANGED <<files, fsize>>
  /\ fsBudget' = fsBudget - 1
  /\ FsFrame
  /\ Notify("rename", <<p>>)

FsNext ==
  \/ \E p \in Paths : FsCreate(p)
  \/ \E p \in Paths : FsModify(p)
  \/ \E p \in Paths : FsRemove(p)
  \/ \E p \in Paths : FsAccess(p)
  \/ \E a, b \in Paths : FsRename(a, b)

InitTaskNext == InitRequest \/ InitLoad

PeriodicNext ==
  \/ PeriodicTick
  \/ PeriodicLockMeta
  \/ \E env \in RemoteBehaviours : PeriodicSyncDone(env)

ManualNext ==
  \/ ManualRequest
  \/ ManualLockMeta
  \/ \E env \in RemoteBehaviours : ManualSyncDone(env)
  \/ ManualLockMeta2 \/ ManualVisit \/ ManualLockGames \/ ManualReplace

ScanNext ==
  \/ ScanStart \/ ScanLockMeta \/ ScanVisit \/ ScanLockGames \/ ScanDrain
  \/ ScanLockFlush \/ ScanFlush \/ ScanComplete_

WatchNext ==
  \/ \E ok \in BOOLEAN : WatchSetup(ok)
  \/ WatchRecv
  \/ WatchRnLock1 \/ WatchRnRemove \/ WatchRnBuild \/ WatchRnLock2 \/ WatchRnPush
  \/ WatchCmBuild \/ WatchCmLock \/ WatchCmUpsert
  \/ WatchRmLock \/ WatchRmRemove

ReaderNext == ReaderLock \/ ReaderReturn

SubNext == \E s \in SubIds : Subscribe(s) \/ Unsubscribe(s) \/ SubRecv(s)

(***************************************************************************)
(* Spec: the reconciliation of the catalog with the storage root, by the   *)
(* startup bulk scan and the watch loop, after the initialization task.    *)
(***************************************************************************)
Init == Boot(MaxFsOps, InitialFiles)

Next == FsNext \/ InitTaskNext \/ ScanNext \/ WatchNext

Spec == Init /\ [][Next]_vars

(***************************************************************************)
(* LockSpec: every task and handler that takes the metadata lock or the    *)
(* catalog lock.                                                           *)
(***************************************************************************)
LockInit == Boot(LockFsOps, {{PathA}})

LockNext ==
  \/ FsNext \/ InitTaskNext \/ PeriodicNext \/ ManualNext \/ ScanNext
  \/ WatchNext \/ ReaderNext

LockSpec == LockInit /\ [][LockNext]_vars

(***************************************************************************)
(* FairSpec: the tasks around the two locks under fair scheduling.  Every  *)
(* step of a task is taken if it stays possible, and a lock that becomes   *)
(* free again and again is eventually given to each task asking for it.    *)
(* Files change, requests arrive and the remote source answers when they   *)
(* will: reqwest::Client::new() sets no timeout (metadata.rs:99).          *)
(***************************************************************************)
FairInit == Boot(FairFsOps, {{PathA}})

FairNext ==
  \/ FsNext \/ InitTaskNext \/ PeriodicNext \/ ScanNext \/ WatchNext
  \/ ReaderNext

Fairness ==
  /\ SF_vars(InitTaskNext)
  /\ SF_vars(ScanNext)
  /\ SF_vars(WatchNext)
  /\ SF_vars(ReaderReturn)
  /\ SF_vars(PeriodicTick \/ PeriodicLockMeta)

FairSpec == FairInit /\ [][FairNext]_vars /\ Fairness

(***************************************************************************)
(* ChanSpec: the publishers of change events and a subscriber of the       *)
(* /events stream that comes, reads at its own pace, and goes.             *)
(***************************************************************************)
ChanInit == Boot(ChanFsOps, {{PathA}})

ChanNext == FsNext \/ ScanNext \/ WatchNext \/ SubNext

ChanSpec == ChanInit /\ [][ChanNext]_vars

(***************************************************************************)
(* SyncSpec: one call of sync() by the periodic task, from any state of    *)
(* data_dir/titledb and of the in-memory maps, against every behaviour of  *)
(* the remote source and of the local disk.                                *)
(***************************************************************************)
Disks ==
  {d \in [dir : BOOLEAN, titles : FileStates, versions : FileStates] :
     ~d.dir => d.titles = "absent" /\ d.versions = "absent"}

Mems == [titles : MapStates, versions : MapStates]

\* the periodic task is inside sync(), the other tasks have not run yet
SyncInit ==
  /\ files = {PathA}
  /\ fsize = [p \in Paths |-> 1]
  /\ fsBudget = 0
  /\ std_rx = <<>>
  /\ unwatched = FALSE
  /\ games = <<>>
  /\ gamesOwner = NoOwner
  /\ metaOwner = "periodic"
  /\ metaWaiters = <<>>
  /\ pc = [p \in Procs |->
             CASE p = "init" -> "done"
               [] p = "periodic" -> "net"
               [] p = "manual" -> "idle"
               [] p = "scan" -> "start"
               [] p = "watch" -> "setup"
               [] p = "reader" -> "idle"]
  /\ disk \in Disks
  /\ mem \in Mems
  /\ toWalk = [x \in Walkers |-> <<>>]
  /\ batch = [x \in Walkers |-> <<>>]
  /\ total_count = 0
  /\ stamps = [x \in Walkers |-> {}]
  /\ w = WIdle
  /\ sent = <<>>
  /\ subs = [s \in SubIds |-> [open |-> FALSE, pos |-> 0, ended |-> FALSE]]
  /\ ticksLeft = 0
  /\ manualLeft = 0
  /\ syncOut = None
  /\ call = None

SyncNext == \E env \in SyncEnvs : PeriodicSyncDone(env)

SyncSpec == SyncInit /\ [][SyncNext]_vars

(***************************************************************************)
(* The catalog at a quiescent point.                                       *)
(***************************************************************************)
\* the bulk scan has finished, the watcher has nothing queued and is
\* between notifications, the initialization task is over, and every
\* change so far was reported to the watcher
Quiescent ==
  /\ pc["scan"] = "done"
  /\ pc["init"] = "done"
  /\ pc["watch"] = "idle"
  /\ std_rx = <<>>
  /\ ~unwatched
  /\ gamesOwner = NoOwner

CatalogPaths == {games[i].path : i \in 1..Len(games)}

Qualifying == {p \in files : to_lowercase(p.ext) \in valid_extensions}

\* C1: at every quiescent point no two catalog entries have the same path.
C1_NoDuplicatePaths ==
  Quiescent =>
    \A i, j \in 1..Len(games) : games[i].path = games[j].path => i = j

\* C2: at every quiescent point the catalog's paths are exactly the
\* qualifying regular files present under the storage root.
C2_CatalogMatchesFiles ==
  Quiescent => CatalogPaths = Qualifying

\* the watch loop has finished a paired rename whose from path was tracked
RenameOfTrackedHandled ==
  /\ pc["watch"] = "idle"
  /\ w.ev.kind = "rename"
  /\ w.tracked

\* C3: a rename notification whose from path is tracked publishes exactly
\* one EntryRemoved(from) and then exactly one EntryUpdated for the to path.
C3_RenameRemovedThenUpdated ==
  RenameOfTrackedHandled =>
    /\ Len(w.pubs) = 2
    /\ w.pubs[1] = EntryRemoved(w.ev.paths[1])
    /\ w.pubs[2].status = "update"
    /\ w.pubs[2].game # None
    /\ w.pubs[2].game[1].path = w.ev.paths[2]

\* C3, amended: exactly one EntryRemoved(from) is published first; it is
\* followed by exactly one EntryUpdated for the to path when process_entry
\* built an entry for it (a regular file with a recognized extension at
\* that moment), and by nothing otherwise.
C3_RenameRemovedThenUpdatedIfBuilt ==
  RenameOfTrackedHandled =>
    /\ w.pubs = <<EntryRemoved(w.ev.paths[1])>>
                  \o [i \in 1..Len(w.game) |-> EntryUpdated(w.game[i])]
    /\ \A i \in 1..Len(w.game) : w.game[i].path = w.ev.paths[2]
    /\ \E i \in 1..Len(sent) :
         /\ sent[i] = EntryRemoved(w.ev.paths[1])
         /\ w.game # None =>
              \E j \in (i + 1)..Len(sent) : sent[j] = EntryUpdated(w.game[1])

C3_Witness ==
  /\ RenameOfTrackedHandled
  /\ w.game # None
  /\ Len(w.pubs) = 2

(***************************************************************************)
(* The two locks.                                                          *)
(***************************************************************************)
HoldsBoth(p) == metaOwner = p /\ gamesOwner = p

WaitsMeta(p) == \E i \in 1..Len(metaWaiters) : metaWaiters[i] = p

\* p is blocked in games.lock()
WaitsGames(p) ==
  /\ gamesOwner # NoOwner
  /\ \/ p = "scan" /\ pc[p] = "drainLock"
     \/ p = "scan" /\ pc[p] = "walk" /\ toWalk[p] = <<>> /\ batch[p] # <<>>
     \/ p = "manual" /\ pc[p] = "walk" /\ toWalk[p] = <<>>
     \/ p = "watch" /\ pc[p] \in {"rnLock1", "rnLock2", "cmLock", "rmLock"}

\* the steps taken under the games guard, each ending with its release
GamesSection ==
  \/ ScanDrain \/ ScanFlush \/ ManualReplace \/ WatchRnRemove \/ WatchRnPush
  \/ WatchCmUpsert \/ WatchRmRemove \/ ReaderReturn

\* C4: the startup bulk scan is the only code path that holds the metadata
\* lock and the catalog lock at the same time.
C4_OnlyScanHoldsBoth ==
  \A p \in Procs \ {"scan"} : ~HoldsBoth(p)

\* C4, amended: the two locks are held together only with the catalog lock
\* taken inside the metadata lock, by the bulk scan's drains, by the watch
\* loop's rename insertion and create/modify upsert, and by the manual
\* rescan's catalog replacement; the watch loop's removals, the syncs, the
\* initialization task and the listing endpoints hold at most one lock.
C4_BothOnlyMetaThenGames ==
  /\ \A p \in Procs :
       HoldsBoth(p) =>
         \/ p = "scan" /\ pc[p] \in {"drain", "flush"}
         \/ p = "watch" /\ pc[p] \in {"rnPush", "cmUpsert"}
         \/ p = "manual" /\ pc[p] = "replace"
  /\ pc["watch"] \in {"rnRemove", "rmRemove"} =>
       gamesOwner = "watch" /\ metaOwner # "watch"
  /\ pc["scan"] \in {"drainLock", "drain", "flush"} => metaOwner = "scan"
  /\ pc["watch"] \in {"rnLock2", "rnPush", "cmLock", "cmUpsert"} =>
       metaOwner = "watch"
  /\ pc["manual"] \in {"walk", "replace"} => metaOwner = "manual"
  /\ pc["periodic"] = "net" => metaOwner = "periodic" /\ gamesOwner # "periodic"
  /\ pc["reader"] = "read" => gamesOwner = "reader" /\ metaOwner # "reader"

C4_Witness == HoldsBoth("watch") /\ pc["watch"] = "cmUpsert"

\* C5: no task waits for the metadata lock or for the network while it
\* holds the catalog lock, so the two locks are never waited for in a cycle
\* and the holder of the catalog lock can always go on to release it.
C5_NoWaitUnderCatalogLock ==
  /\ \A p \in Procs :
       gamesOwner = p => ~WaitsMeta(p) /\ pc[p] # "net"
  /\ ~ \E p, q \in Procs :
         /\ gamesOwner = p /\ WaitsMeta(p)
         /\ metaOwner = q /\ WaitsGames(q)
  /\ gamesOwner # NoOwner => ENABLED GamesSection

\* the bulk scan, holding the metadata lock, is blocked on the catalog lock
\* that the rename handler holds for its removal
C5_Witness ==
  /\ metaOwner = "scan" /\ WaitsGames("scan")
  /\ gamesOwner = "watch" /\ pc["watch"] = "rnRemove"

Syncers == {"periodic", "manual"}

C8_ScanSeesOneMetadataState ==
  /\ \A x \in Walkers : Cardinality(stamps[x]) <= 1
  /\ \A x \in Walkers : metaOwner = x /\ pc[x] # "net" => stamps[x] \subseteq {mem}

\* a sync is waiting while the scan, two entries built, still holds its guard
C8_Witness ==
  /\ metaOwner = "scan"
  /\ total_count >= 2
  /\ stamps["scan"] = {mem}
  /\ \E p \in Syncers : pc[p] = "waitMeta"

\* p has called games.lock() and not yet got the guard
GamesRequested(p) ==
  \/ p = "scan" /\ pc[p] = "drainLock"
  \/ p = "scan" /\ pc[p] = "walk" /\ toWalk[p] = <<>> /\ batch[p] # <<>>
  \/ p = "manual" /\ pc[p] = "walk" /\ toWalk[p] = <<>>
  \/ p = "watch" /\ pc[p] \in {"rnLock1", "rnLock2", "cmLock", "rmLock"}

\* C6: under fair scheduling every request for the metadata lock and every
\* request for the catalog lock is eventually granted, also a request for
\* the metadata lock made while a metadata sync is in progress.
C6_EveryLockRequestGranted ==
  \A p \in Procs :
    /\ WaitsMeta(p) ~> ~WaitsMeta(p)
    /\ GamesRequested(p) ~> (gamesOwner = p)

(***************************************************************************)
(* The change-event channel.                                               *)
(***************************************************************************)
Lagging(s) == subs[s].open /\ subs[s].pos < Oldest

\* C9: a step that publishes a change event can be taken whatever the
\* subscribers are doing (none, up to date, or lagging by more than the
\* channel keeps); a subscriber's stream is never ended by its lag, and a
\* subscriber that has something left to read can read on.
C9_PublishNeverBlocks ==
  /\ pc["scan"] = "start" => ENABLED ScanStart
  /\ pc["scan"] = "drain" => ENABLED ScanDrain
  /\ pc["scan"] = "walk" /\ toWalk["scan"] = <<>> /\ batch["scan"] = <<>>
       => ENABLED ScanComplete_
  /\ pc["watch"] = "rnRemove" => ENABLED WatchRnRemove
  /\ pc["watch"] = "rnPush" => ENABLED WatchRnPush
  /\ pc["watch"] = "cmUpsert" => ENABLED WatchCmUpsert
  /\ pc["watch"] = "rmRemove" => ENABLED WatchRmRemove
  /\ \A s \in SubIds :
       /\ ~subs[s].ended
       /\ subs[s].open => subs[s].pos <= Len(sent)
       /\ subs[s].open /\ subs[s].pos < Len(sent) => ENABLED SubRecv(s)
       /\ Lagging(s) => ENABLED SubRecv(s)

\* the watch loop is about to publish while a subscriber has fallen behind
\* by more than the channel keeps
C9_Witness ==
  /\ \E s \in SubIds : Lagging(s)
  /\ pc["watch"] = "cmUpsert"

(***************************************************************************)
(* MetadataProvider::sync                                                  *)
(***************************************************************************)
Attempted(o, step) == \E i \in 1..Len(o.steps) : o.steps[i] = step

\* no fetch of the call ended in one of the `?` returns
OnlyFetchFailures(o) ==
  /\ ~FetchReturnsErr(o.env.ver)
  /\ ~FetchReturnsErr(o.env.t1)
  /\ o.env.t1 # "ok" => ~FetchReturnsErr(o.env.t2)

LastOutcome(o) ==
  LET last == o.steps[Len(o.steps)]
  IN  CASE last = "create_dir_all" -> IF o.env.mkdir THEN "ok" ELSE "mkdirfail"
        [] last = "get_versions" -> o.env.ver
        [] last = "get_region" -> o.env.t1
        [] last = "get_titles" -> o.env.t2
        [] OTHER -> "ok"

\* directory creation, file creation, file write
LocalFailures == {"mkdirfail", "createfail", "writeerr"}

\* C11: sync() returns an error only for a local filesystem failure
\* (directory creation, file creation, file write); no failure of the
\* remote source, an error in the streamed body included, makes it return
\* an error.
C11_ErrOnlyForLocalFailures ==
  syncOut # None /\ syncOut[1].result = "Err"
    => LastOutcome(syncOut[1]) \in LocalFailures

\* C12: every call of sync() calls load_local_data before it returns,
\* whatever the outcome.
C12_SyncAlwaysLoads ==
  syncOut # None => Attempted(syncOut[1], "load_local_data")

\* C13: after a load, a dataset whose file on disk is malformed or empty
\* has an empty map in memory, whatever the map held before the load.
C13_MalformedOrEmptyLeavesEmptyMap ==
  syncOut # None /\ Attempted(syncOut[1], "load_local_data") =>
    /\ disk.titles \in {"empty", "bad"} => mem.titles = "none"
    /\ disk.versions \in {"empty", "bad"} => mem.versions = "none"

(***************************************************************************)
(* Library functions called with given arguments.  A text is the sequence  *)
(* of its characters.                                                      *)
(***************************************************************************)
\* every variable but call keeps its value
EngineIdle ==
  UNCHANGED <<fsVars, games, lockVars, pc, metaVars, walkVars, w, sent, subs,
              envVars, syncOut>>

Pending(fn, args) == Some([fn |-> fn, args |-> args, done |-> FALSE, ret |-> None])

Calling(fn) == call # None /\ call[1].fn = fn /\ ~call[1].done

Returned(fn) == call # None /\ call[1].fn = fn /\ call[1].done

Return(ret) == call' = Some([call[1] EXCEPT !.done = TRUE, !.ret = ret])

DigitChars == <<"0", "1", "2", "3", "4", "5", "6", "7", "8", "9">>

IsDigit(c) == \E i \in 1..10 : DigitChars[i] = c

DigitValue(c) == (CHOOSE i \in 1..10 : DigitChars[i] = c) - 1

RECURSIVE DecValue(_)
DecValue(t) ==
  IF t = <<>> THEN 0
  ELSE 10 * DecValue(SubSeq(t, 1, Len(t) - 1)) + DigitValue(t[Len(t)])

RECURSIVE StripZeros(_)
StripZeros(t) == IF t # <<>> /\ t[1] = "0" THEN StripZeros(Tail(t)) ELSE t

\* u64::MAX, 18446744073709551615
U64MaxDigits ==
  <<"1", "8", "4", "4", "6", "7", "4", "4", "0", "7", "3", "7", "0", "9", "5",
    "5", "1", "6", "1", "5">>

\* digit texts of equal length: a is the larger number
RECURSIVE DigitsGreater(_, _)
DigitsGreater(a, b) ==
  IF a = <<>> THEN FALSE
  ELSE IF a[1] # b[1] THEN DigitValue(a[1]) > DigitValue(b[1])
  ELSE DigitsGreater(Tail(a), Tail(b))

\* the number does not fit 64 bits
Overflows(t) ==
  LET d == StripZeros(t)
  IN  \/ Len(d) > Len(U64MaxDigits)
      \/ Len(d) = Len(U64MaxDigits) /\ DigitsGreater(d, U64MaxDigits)

\* str::parse::<u64>: an optional '+', then one or more decimal digits, the
\* value within 64 bits
parse_u64(t) ==
  LET body == IF t # <<>> /\ t[1] = "+" THEN Tail(t) ELSE t
  IN  IF body = <<>> THEN None
      ELSE IF \E i \in 1..Len(body) : ~IsDigit(body[i]) THEN None
      ELSE IF Overflows(body) THEN None
      ELSE Some(DecValue(body))

\* u64::to_string
RECURSIVE to_string(_)
to_string(n) ==
  IF n < 10 THEN <<DigitChars[n + 1]>>
  ELSE Append(to_string(n \div 10), DigitChars[(n % 10) + 1])

Max(ns) == CHOOSE n \in ns : \A k \in ns : k <= n

\* byte order of the characters of a key
CharRank(c) == IF c = "+" THEN 0 ELSE DigitValue(c) + 1

\* str's Ord
RECURSIVE TextLess(_, _)
TextLess(a, b) ==
  IF b = <<>> THEN FALSE
  ELSE IF a = <<>> THEN TRUE
  ELSE IF a[1] # b[1] THEN CharRank(a[1]) < CharRank(b[1])
  ELSE TextLess(Tail(a), Tail(b))

\* the largest key taken in text order
get_latest_version_TextOrder(versions, title_id) ==
  IF to_lowercase(title_id) \notin DOMAIN versions THEN None
  ELSE LET keys == {k \in versions[to_lowercase(title_id)] : parse_u64(k) # None}
       IN  IF keys = {} THEN None
           ELSE LET top == CHOOSE k \in keys :
                             \A o \in keys : o = k \/ TextLess(o, k)
                IN  Some(to_string(parse_u64(top)[1]))

\* MetadataProvider::get_latest_version; a version history is the set of
\* its keys
get_latest_version(versions, title_id) ==
  IF to_lowercase(title_id) \notin DOMAIN versions THEN None
  ELSE LET nums == {parse_u64(k)[1] :
                      k \in {k \in versions[to_lowercase(title_id)] : parse_u64(k) # None}}
       IN  IF nums = {} THEN None ELSE Some(to_string(Max(nums)))

\* keys of a version history as they may stand in versions.json
VersionKeys ==
  { <<"0">>, <<"9">>, <<"1", "0">>, <<"6", "5", "5", "3", "6">>,
    <<"+", "7">>, <<"0", "0", "8">>, <<"x">>, <<"1", "x">>, <<>>,
    <<"-", "1">>,
    <<"1", "8", "4", "4", "6", "7", "4", "4", "0", "7", "3", "7", "0", "9",
      "5", "5", "1", "6", "1", "6">> }

Histories == {h \in SUBSET VersionKeys : Cardinality(h) <= MaxKeys}

\* the ids versions.json may use as keys, and the ids asked for
StoredIds == {"0100ab", "0100AB"}
TitleIds == {"0100ab", "0100AB", "0100Cd"}

VersionMaps ==
  {[i \in {sid} |-> h] : sid \in StoredIds, h \in Histories} \cup {<<>>}

(***************************************************************************)
(* VersionSpec: get_latest_version on a versions map and a title id.       *)
(***************************************************************************)
VersionInit ==
  /\ BootEngine(0, {{PathA}})
  /\ \E v \in VersionMaps, id \in TitleIds :
       call = Pending("get_latest_version", [versions |-> v, title_id |-> id])

GetLatestVersion ==
  /\ Calling("get_latest_version")
  /\ Return(get_latest_version(call[1].args.versions, call[1].args.title_id))
  /\ EngineIdle

VersionNext == GetLatestVersion

VersionSpec == VersionInit /\ [][VersionNext]_vars

\* the keys of the history stored under the lowercased id that are
\* unsigned integers
ParsedKeys(args) ==
  IF to_lowercase(args.title_id) \notin DOMAIN args.versions THEN {}
  ELSE {k \in args.versions[to_lowercase(args.title_id)] : parse_u64(k) # None}

\* a decimal numeral as to_string writes it
Canonical(t) ==
  /\ t # <<>>
  /\ \A i \in 1..Len(t) : IsDigit(t[i])
  /\ Len(t) > 1 => t[1] # "0"

\* C14: get_latest_version(id) looks the history up under the lowercased
\* id; the result is absent exactly when the id is unknown or no key is an
\* unsigned integer; otherwise it is the canonical decimal numeral of the
\* value of one of those keys, which no other of those keys exceeds
\* ({"0", "65536"} gives "65536", {"9", "10"} gives "10").
C14_LatestIsNumericMaximum ==
  Returned("get_latest_version") =>
    LET args == call[1].args
        ret == call[1].ret
        keys == ParsedKeys(args)
    IN  /\ ret = None <=> keys = {}
        /\ ret # None =>
             /\ Canonical(ret[1])
             /\ \E k \in keys : parse_u64(k) = parse_u64(ret[1])
             /\ \A k \in keys : parse_u64(k)[1] <= parse_u64(ret[1])[1]
        /\ keys = {<<"0">>, <<"6", "5", "5", "3", "6">>}
             => ret = Some(<<"6", "5", "5", "3", "6">>)

\* the numeric maximum differs from the maximum in text order, a key that
\* does not parse is passed over, and the id is asked for in upper case
C14_Witness ==
  /\ Returned("get_latest_version")
  /\ call[1].args.title_id = "0100AB"
  /\ call[1].args.versions = [i \in {"0100ab"} |-> {<<"9">>, <<"1", "0">>, <<"1", "x">>}]
  /\ call[1].ret = Some(<<"1", "0">>)

(***************************************************************************)
(* scanner.rs: parse_filename                                              *)
(***************************************************************************)
\* the last index of c in t, 0 if there is none
LastIndexOf(t, c) ==
  IF \E i \in 1..Len(t) : t[i] = c
  THEN CHOOSE i \in 1..Len(t) : t[i] = c /\ \A j \in (i + 1)..Len(t) : t[j] # c
  ELSE 0

\* str::find: the first index of c in t, 0 if there is none
Find(t, c) ==
  IF \E i \in 1..Len(t) : t[i] = c
  THEN CHOOSE i \in 1..Len(t) : t[i] = c /\ \A j \in 1..(i - 1) : t[j] # c
  ELSE 0

\* Path::new(filename).file_stem(): the name up to its last '.', the whole
\* name when it has no '.' or only a leading one
file_stem(t) ==
  LET dot == LastIndexOf(t, ".")
  IN  IF dot <= 1 THEN t ELSE SubSeq(t, 1, dot - 1)

\* str::split('[')
RECURSIVE split(_, _)
split(t, c) ==
  LET i == Find(t, c)
  IN  IF i = 0 THEN <<t>>
      ELSE <<SubSeq(t, 1, i - 1)>> \o split(SubSeq(t, i + 1, Len(t)), c)

\* str::trim
RECURSIVE trim(_)
trim(t) ==
  IF t # <<>> /\ t[1] = " " THEN trim(Tail(t))
  ELSE IF t # <<>> /\ t[Len(t)] = " " THEN trim(SubSeq(t, 1, Len(t) - 1))
  ELSE t

HexLower == <<"a", "b", "c", "d", "e", "f">>
HexUpper == <<"A", "B", "C", "D", "E", "F">>

\* char::is_ascii_alphanumeric on the characters in use
is_ascii_alphanumeric(c) ==
  \/ IsDigit(c)
  \/ \E i \in 1..6 : HexLower[i] = c \/ HexUpper[i] = c
  \/ c \in {"g", "v", "U", "P", "L", "u", "p"}

\* char::is_ascii_hexdigit
is_ascii_hexdigit(c) ==
  \/ IsDigit(c)
  \/ \E i \in 1..6 : HexLower[i] = c \/ HexUpper[i] = c

\* char::to_uppercase on the characters of an id
CharUpper(c) ==
  IF \E i \in 1..6 : HexLower[i] = c
  THEN HexUpper[CHOOSE i \in 1..6 : HexLower[i] = c]
  ELSE c

\* str::to_uppercase
to_uppercase(t) == [i \in 1..Len(t) |-> CharUpper(t[i])]

\* the recognized length of a title id (scanner.rs:50)
IdLen == 16

\* the sections with a category kept once it is set
RECURSIVE Sections_FirstCategory(_, _)
Sections_FirstCategory(parts, acc) ==
  IF parts = <<>> THEN acc
  ELSE
    LET part == Head(parts)
        end == Find(part, "]")
        content == SubSeq(part, 1, end - 1)
        next ==
          IF end = 0 THEN acc
          ELSE IF Len(content) = IdLen
                  /\ \A i \in 1..Len(content) : is_ascii_hexdigit(content[i])
            THEN [acc EXCEPT !.title_id = Some(to_uppercase(content))]
          ELSE IF content # <<>> /\ content[1] = "v"
                  /\ \A i \in 2..Len(content) : IsDigit(content[i])
            THEN [acc EXCEPT !.version = Some(content),
                             !.category = IF content # <<"v", "0">> /\ @ = "Base"
                                          THEN "Update" ELSE @]
          ELSE IF content = <<"U", "P", "D">>
            THEN [acc EXCEPT !.category = IF @ = "Base" THEN "Update" ELSE @]
          ELSE IF content = <<"D", "L", "C">>
            THEN [acc EXCEPT !.category = IF @ = "Base" THEN "DLC" ELSE @]
          ELSE acc
    IN  Sections_FirstCategory(Tail(parts), next)

\* lines 43-75: the bracketed sections after the first, in order; acc is
\* (title_id, version, category)
RECURSIVE Sections(_, _)
Sections(parts, acc) ==
  IF parts = <<>> THEN acc
  ELSE
    LET part == Head(parts)
        end == Find(part, "]")
        content == SubSeq(part, 1, end - 1)
        next ==
          IF end = 0 THEN acc
          ELSE IF Len(content) = IdLen
                  /\ \A i \in 1..Len(content) : is_ascii_hexdigit(content[i])
            THEN [acc EXCEPT !.title_id = Some(to_uppercase(content))]
          ELSE IF content # <<>> /\ content[1] = "v"
                  /\ \A i \in 2..Len(content) : IsDigit(content[i])
            THEN [acc EXCEPT !.version = Some(content),
                             !.category = IF content # <<"v", "0">>
                                          THEN "Update" ELSE @]
          ELSE IF content = <<"U", "P", "D">> THEN [acc EXCEPT !.category = "Update"]
          ELSE IF content = <<"D", "L", "C">> THEN [acc EXCEPT !.category = "DLC"]
          ELSE acc
    IN  Sections(Tail(parts), next)

\* parse_filename
parse_filename(filename) ==
  LET clean_name == file_stem(filename)
      parts == split(clean_name, "[")
      r == Sections(Tail(parts),
                    [title_id |-> None, version |-> None, category |-> "Base"])
  IN  [name |-> trim(parts[1]), title_id |-> r.title_id,
       version |-> r.version, category |-> r.category]

\* display names, free of brackets
GameNames ==
  { <<"Z", "e">>, <<"Z", " ", "e">>, <<"D", "r", ".", "Z">>, <<"Z", "2">> }

\* 16 hexadecimal characters, in lower, upper and mixed case
GameIds ==
  { <<"0", "1", "0", "0", "a", "b", "c", "d", "0", "0", "0", "1", "e", "0", "0", "0">>,
    <<"0", "1", "0", "0", "A", "B", "C", "D", "0", "0", "0", "1", "E", "8", "0", "0">>,
    <<"0", "1", "0", "0", "a", "B", "0", "0", "0", "0", "0", "1", "f", "0", "0", "1">> }

\* version numbers as written in a name
GameVersions ==
  { <<"0">>, <<"1">>, <<"0", "0">>, <<"6", "5", "5", "3", "6">>, <<"1", "0">> }

\* the name stands alone or carries a container extension
NameSuffixes == { <<>>, <<".", "n", "s", "p">>, <<".", "X", "C", "I">> }

\* "Name [ID][vN]" and what follows it
StandardName(name, id, n, suffix) ==
  name \o <<" ", "[">> \o id \o <<"]", "[", "v">> \o n \o <<"]">> \o suffix

(***************************************************************************)
(* NameSpec: parse_filename on file names of the standard form.            *)
(***************************************************************************)
NameInit ==
  /\ BootEngine(0, {{PathA}})
  /\ \E name \in GameNames, id \in GameIds, n \in GameVersions,
        suffix \in NameSuffixes :
       call = Pending("parse_filename",
                      [name |-> name, id |-> id, n |-> n, suffix |-> suffix])

ParseFilename ==
  /\ Calling("parse_filename")
  /\ LET a == call[1].args
     IN  Return(parse_filename(StandardName(a.name, a.id, a.n, a.suffix)))
  /\ EngineIdle

NameNext == ParseFilename

NameSpec == NameInit /\ [][NameNext]_vars

\* C15: for every file name of the form "Name [ID][vN]", alone or followed
\* by a container extension, ID 16 hexadecimal characters and N decimal
\* digits, parse_filename yields the name "Name", the title id ID in upper
\* case, the version "vN", and the category Base if and only if N is 0,
\* otherwise Update.
C15_StandardNameClassified ==
  Returned("parse_filename") =>
    LET a == call[1].args
        r == call[1].ret
    IN  /\ r.name = a.name
        /\ r.title_id = Some(to_uppercase(a.id))
        /\ r.version = Some(<<"v">> \o a.n)
        /\ r.category = IF parse_u64(a.n) = Some(0) THEN "Base" ELSE "Update"

(***************************************************************************)
(* EntrySpec: process_entry on a path that is a regular file or is not     *)
(* (a directory, or nothing at all), under any state of the metadata.      *)
(***************************************************************************)
\* extensions as written in a name; "" stands for a name without one
EntryExts == {"nsp", "NSP", "Nsz", "xCz", "XCI", "xci", "txt", "TXT", "nspx", ""}

EntryPaths == {[stem |-> "a", ext |-> e] : e \in EntryExts}

EntryInit ==
  /\ BootEngine(0, {{PathA}})
  /\ \E path \in EntryPaths, is_file \in BOOLEAN, size \in Sizes, m \in Mems :
       call = Pending("process_entry",
                      [path |-> path, is_file |-> is_file, size |-> size,
                       metadata |-> m])

ProcessEntry ==
  /\ Calling("process_entry")
  /\ LET a == call[1].args
     IN  Return(process_entry(a.path, IF a.is_file THEN {a.path} ELSE {},
                              [p \in {a.path} |-> a.size], a.metadata))
  /\ EngineIdle

EntryNext == ProcessEntry

EntrySpec == EntryInit /\ [][EntryNext]_vars

\* the four container extensions in every spelling in use
ContainerSpellings ==
  [nsp |-> {"nsp", "NSP"}, nsz |-> {"nsz", "Nsz", "NSZ"},
   xci |-> {"xci", "XCI"}, xcz |-> {"xcz", "xCz", "XCZ"}]

\* C16: process_entry returns none for a path that is not a regular file
\* and for a file whose extension is, whatever its case, none of nsp, nsz,
\* xci, xcz (or is missing); for every other regular file it returns an
\* entry with the given path and the lowercased extension as its format.
C16_EntryOnlyForContainerFiles ==
  Returned("process_entry") =>
    LET a == call[1].args
        ret == call[1].ret
        formats == {f \in DOMAIN ContainerSpellings : a.path.ext \in ContainerSpellings[f]}
    IN  /\ ret = None <=> (~a.is_file \/ formats = {})
        /\ ret # None =>
             /\ ret[1].path = a.path
             /\ formats = {ret[1].format}

\* a file with an extension in mixed case is accepted
C16_Witness ==
  /\ Returned("process_entry")
  /\ call[1].args.is_file /\ call[1].args.path.ext = "xCz"
  /\ call[1].ret # None /\ call[1].ret[1].format = "xcz"

(***************************************************************************)
(* tinfoil.rs: encrypt_shop.  A byte is a number 0..255, a character of    *)
(* the magic, or a byte of ciphertext, which is known only by what was     *)
(* encrypted, under which key, and the byte's place in the result.         *)
(***************************************************************************)
\* b"TINFOIL"
Magic == <<"T", "I", "N", "F", "O", "I", "L">>
\* the flag byte 0xFD
Flag == 253
\* AES block size, and the size of an RSA-2048 ciphertext
BlockSize == 16
RsaLen == 256
\* size of a u64
U64Bytes == 8

\* u64::to_be_bytes
RECURSIVE to_be_bytes_n(_, _)
to_be_bytes_n(n, k) ==
  IF k = 0 THEN <<>> ELSE Append(to_be_bytes_n(n \div 256, k - 1), n % 256)

to_be_bytes(n) == to_be_bytes_n(n, U64Bytes)

RECURSIVE to_le_bytes_n(_, _)
to_le_bytes_n(n, k) ==
  IF k = 0 THEN <<>> ELSE <<n % 256>> \o to_le_bytes_n(n \div 256, k - 1)

\* u64::to_le_bytes
to_le_bytes(n) == to_le_bytes_n(n, U64Bytes)

Zeros(n) == [i \in 1..n |-> 0]

\* padding that adds a whole block to data already aligned
pad_to_block_Always(data) == data \o Zeros(BlockSize - (Len(data) % BlockSize))

\* lines 37-41: pad_len = 16 - (compressed_size % 16), appended if < 16
pad_to_block(data) ==
  LET pad_len == BlockSize - (Len(data) % BlockSize)
  IN  IF pad_len < BlockSize THEN data \o Zeros(pad_len) ELSE data

\* cipher.encrypt_block: the 16 bytes of one encrypted block
encrypt_block(key, block) ==
  [j \in 1..BlockSize |-> [aes |-> block, key |-> key, at |-> j]]

\* lines 43-48: padded_data.chunks_exact(16), each chunk encrypted; what is
\* left after the last whole chunk is not visited
RECURSIVE encrypt_chunks(_, _)
encrypt_chunks(key, data) ==
  IF Len(data) < BlockSize THEN <<>>
  ELSE encrypt_block(key, SubSeq(data, 1, BlockSize))
         \o encrypt_chunks(key, SubSeq(data, BlockSize + 1, Len(data)))

\* pub_key.encrypt(rng, Oaep, aes_key): 256 bytes
rsa_encrypt(key) == [j \in 1..RsaLen |-> [rsa |-> key, at |-> j]]

Ok(x) == [ok |-> TRUE, val |-> x]
Err == [ok |-> FALSE, val |-> <<>>]

\* encrypt_shop; env gives the random key, the result of zstd::encode_all
\* and whether the RSA steps succeed
encrypt_shop(env) ==
  IF env.zstd = None THEN Err                               \* line 24 `?`
  ELSE IF ~env.rsa_ok THEN Err                              \* lines 28, 31 `?`
  ELSE
    LET compressed == env.zstd[1]
        encrypted_data == encrypt_chunks(env.aes_key, pad_to_block(compressed))
    IN  Ok(Magic \o <<Flag>> \o rsa_encrypt(env.aes_key)
             \o to_le_bytes(Len(compressed)) \o encrypted_data)

\* what zstd::encode_all may return: n bytes, here i * step mod 256
Compressed(n, step) == [i \in 1..n |-> (i * step) % 256]

CompressedLens == 0..MaxCompressedLen \cup {256, 257}

AesKeys == {"k1", "k2"}

EncryptEnvs ==
  [aes_key : AesKeys, rsa_ok : BOOLEAN,
   zstd : {None} \cup {Some(Compressed(n, step)) : n \in CompressedLens,
                                                   step \in {0, 1, 37}}]

(***************************************************************************)
(* EncryptSpec: encrypt_shop on any listing.                               *)
(***************************************************************************)
EncryptInit ==
  /\ BootEngine(0, {{PathA}})
  /\ \E env \in EncryptEnvs : call = Pending("encrypt_shop", env)

EncryptShop ==
  /\ Calling("encrypt_shop")
  /\ Return(encrypt_shop(call[1].args))
  /\ EngineIdle

EncryptNext == EncryptShop

EncryptSpec == EncryptInit /\ [][EncryptNext]_vars

\* the 8 bytes hold n, least significant byte first (n below 65536)
HoldsLe(bytes, n) ==
  /\ Len(bytes) = 8
  /\ bytes[1] = n % 256
  /\ bytes[2] = (n \div 256) % 256
  /\ \A i \in 3..8 : bytes[i] = 0

RoundUp(n, m) == ((n + m - 1) \div m) * m

\* C17: a successful encrypt_shop output is the 7 bytes "TINFOIL", the flag
\* byte, the 256 bytes of the encrypted key, the compressed length as a
\* little-endian u64 in bytes 264-271, and after these the encrypted
\* payload; its length is 272 plus the compressed length rounded up to a
\* multiple of 16.
C17_ContainerLayout ==
  Returned("encrypt_shop") /\ call[1].ret.ok =>
    LET env == call[1].args
        out == call[1].ret.val
        n == Len(env.zstd[1])
    IN  /\ Len(out) = 272 + RoundUp(n, 16)
        /\ SubSeq(out, 1, 7) = Magic
        /\ out[8] = Flag
        /\ \A i \in 9..264 : out[i] = [rsa |-> env.aes_key, at |-> i - 8]
        /\ HoldsLe(SubSeq(out, 265, 272), n)
        /\ \A i \in 273..Len(out) :
             /\ DOMAIN out[i] = {"aes", "key", "at"}
             /\ out[i].key = env.aes_key

\* a listing whose compressed length needs the second byte of the length
\* field and is not a multiple of 16
C17_Witness ==
  /\ Returned("encrypt_shop") /\ call[1].ret.ok
  /\ Len(call[1].args.zstd[1]) = 257
  /\ Len(call[1].ret.val) = 544

\* the plaintext of the k-th encrypted block of an output
BlockOf(out, k) == out[272 + (k - 1) * 16 + 1].aes

\* C18: the zero bytes appended before encryption number
\* (16 - compressed_len mod 16) mod 16, and every 16-byte block of the
\* padded data is encrypted, in order, none dropped.
C18_ZeroPaddingToBlock ==
  Returned("encrypt_shop") /\ call[1].ret.ok =>
    LET env == call[1].args
        out == call[1].ret.val
        data == env.zstd[1]
        pad == (16 - (Len(data) % 16)) % 16
        padded == data \o [i \in 1..pad |-> 0]
        blocks == (Len(out) - 272) \div 16
    IN  /\ (Len(out) - 272) % 16 = 0
        /\ blocks * 16 = Len(padded)
        /\ \A k \in 1..blocks :
             /\ BlockOf(out, k) = SubSeq(padded, (k - 1) * 16 + 1, k * 16)
             /\ \A j \in 1..16 :
                  out[272 + (k - 1) * 16 + j] =
                    [aes |-> BlockOf(out, k), key |-> env.aes_key, at |-> j]

\* one listing compresses to a multiple of 16 bytes and gets no padding,
\* here one that needs 15 bytes of it
C18_Witness ==
  /\ Returned("encrypt_shop") /\ call[1].ret.ok
  /\ Len(call[1].args.zstd[1]) = 33
  /\ Len(call[1].ret.val) = 272 + 48

(***************************************************************************)
(* handlers/tinfoil.rs: tinfoil_index, the shop listing endpoint.          *)
(***************************************************************************)
\* lines 23-39: the listing of a catalog snapshot
shop_json(gs) ==
  [files |-> [i \in 1..Len(gs) |-> [url |-> gs[i].path, size |-> gs[i].size]],
   success |-> "The index was generated successfully."]

Response(content_type, body, encoded) ==
  [status |-> 200, content_type |-> content_type, body |-> body,
   encoder_called |-> encoded]

\* the endpoint failing when the encoder fails
tinfoil_index_Unwrap(gs, tinfoil_encrypt, env) ==
  IF tinfoil_encrypt
  THEN IF encrypt_shop(env).ok
       THEN Response("application/octet-stream", encrypt_shop(env).val, TRUE)
       ELSE [status |-> 500, content_type |-> "text/plain", body |-> <<>>,
             encoder_called |-> TRUE]
  ELSE Response("application/json", shop_json(gs), FALSE)

\* lines 41-57
tinfoil_index(gs, tinfoil_encrypt, env) ==
  IF tinfoil_encrypt
  THEN IF encrypt_shop(env).ok
       THEN Response("application/octet-stream", encrypt_shop(env).val, TRUE)
       ELSE Response("application/json", shop_json(gs), TRUE)
  ELSE Response("application/json", shop_json(gs), FALSE)

\* what the encoder meets when the endpoint calls it
ShopEnvs ==
  {e \in EncryptEnvs :
     /\ e.aes_key = "k1"
     /\ e.zstd \in {None, Some(Compressed(0, 0)), Some(Compressed(17, 1))}}

\* GET /tinfoil: the handler takes the games guard, builds the listing and
\* answers without awaiting anything
TinfoilIndex(tinfoil_encrypt, env) ==
  /\ GamesCanLock("reader")
  /\ pc["reader"] = "idle"
  /\ call' = Some([fn |-> "tinfoil_index",
                   args |-> [games |-> games, tinfoil_encrypt |-> tinfoil_encrypt,
                             env |-> env],
                   done |-> TRUE,
                   ret |-> tinfoil_index(games, tinfoil_encrypt, env)])
  /\ EngineIdle

(***************************************************************************)
(* ShopSpec: the shop listing endpoint asked at any moment of the bulk     *)
(* scan.                                                                   *)
(***************************************************************************)
ShopInit == Boot(0, InitialFiles)

ShopNext ==
  \/ ScanNext
  \/ \E tinfoil_encrypt \in BOOLEAN, env \in ShopEnvs :
       TinfoilIndex(tinfoil_encrypt, env)

ShopSpec == ShopInit /\ [][ShopNext]_vars

\* C19: the shop listing endpoint always answers: with encryption enabled
\* and the encoder failing, the JSON listing of the same catalog snapshot;
\* with the encoder succeeding, the binary container; with encryption
\* disabled, the JSON listing, the encoder not called.
C19_ListingNeverFailsOnEncryption ==
  Returned("tinfoil_index") =>
    LET a == call[1].args
        r == call[1].ret
        listed == r.content_type = "application/json"
                    /\ Len(r.body.files) = Len(a.games)
                    /\ \A i \in 1..Len(a.games) :
                         /\ r.body.files[i].url = a.games[i].path
                         /\ r.body.files[i].size = a.games[i].size
    IN  /\ r.status = 200
        /\ ~a.tinfoil_encrypt => listed /\ ~r.encoder_called
        /\ a.tinfoil_encrypt /\ (a.env.zstd = None \/ ~a.env.rsa_ok) => listed
        /\ a.tinfoil_encrypt /\ a.env.zstd # None /\ a.env.rsa_ok =>
             /\ r.content_type = "application/octet-stream"
             /\ r.encoder_called
             /\ SubSeq(r.body, 1, 7) = Magic

\* encryption is enabled, the encoder fails, and a catalog of two entries
\* is listed in JSON
C19_Witness ==
  /\ Returned("tinfoil_index")
  /\ call[1].args.tinfoil_encrypt /\ call[1].args.env.zstd = None
  /\ Len(call[1].args.games) = 2
  /\ call[1].ret.content_type = "application/json"

(***************************************************************************)
(* The watch loop after a failed setup.                                    *)
(***************************************************************************)
WatchDead == pc["watch"] = "dead"

\* the watch loop is gone: it handled nothing and holds or awaits no lock;
\* every other task is alive and its next step is as possible as before
WatchDeadOnly ==
  WatchDead =>
    /\ w = WIdle /\ std_rx = <<>>
    /\ gamesOwner # "watch" /\ metaOwner # "watch" /\ ~WaitsMeta("watch")
    /\ \A p \in Procs \ {"watch"} : pc[p] # "dead"
    /\ pc["scan"] = "start" => ENABLED ScanStart
    /\ pc["scan"] = "walk" /\ toWalk["scan"] # <<>> => ENABLED ScanVisit
    /\ pc["periodic"] = "net" => ENABLED (\E env \in RemoteBehaviours : PeriodicSyncDone(env))
    /\ pc["manual"] = "idle" /\ manualLeft > 0 => ENABLED ManualRequest
    /\ pc["reader"] = "idle" /\ gamesOwner = NoOwner => ENABLED ReaderLock

\* it never comes back, and the catalog changes only in a bulk scan's
\* drain or flush or in the manual rescan's replacement
WatchDeadStep ==
  WatchDead =>
    /\ pc'["watch"] = "dead"
    /\ games' # games =>
         \/ pc["scan"] \in {"drain", "flush"} /\ pc'["scan"] # pc["scan"]
         \/ pc["manual"] = "replace" /\ pc'["manual"] # pc["manual"]

\* C20: when the OS watch cannot be created or attached, the watch loop
\* stops without handling any notification and without ending the process:
\* the bulk scan, the syncs and the endpoints go on, and from then on the
\* catalog is changed only by bulk scans.
C20_WatchFailureStopsOnlyTheLoop ==
  []WatchDeadOnly /\ [][WatchDeadStep]_vars

\* the loop is gone, a file changed unobserved, and the bulk scan has
\* finished with a catalog
C20_Witness ==
  /\ WatchDead /\ unwatched
  /\ pc["scan"] = "done" /\ games # <<>>

(***************************************************************************)
(* webdav.rs: webdav_handler, the Basic authentication in front of the DAV *)
(* handler.  Header values and credentials are texts; decoded tokens are   *)
(* sequences of bytes.                                                     *)
(***************************************************************************)
\* the alphabet of base64's STANDARD engine
B64Alphabet ==
  <<"A", "B", "C", "D", "E", "F", "G", "H", "I", "J", "K", "L", "M", "N", "O", "P",
    "Q", "R", "S", "T", "U", "V", "W", "X", "Y", "Z", "a", "b", "c", "d", "e", "f",
    "g", "h", "i", "j", "k", "l", "m", "n", "o", "p", "q", "r", "s", "t", "u", "v",
    "w", "x", "y", "z", "0", "1", "2", "3", "4", "5", "6", "7", "8", "9", "+", "/">>

IsB64(c) == \E i \in 1..Len(B64Alphabet) : B64Alphabet[i] = c

B64Value(c) == (CHOOSE i \in 1..Len(B64Alphabet) : B64Alphabet[i] = c) - 1

\* the last four symbols of a token: one, two or three bytes; padding is
\* required and the bits left over by the last symbol must be zero
b64_final(q) ==
  IF q[3] = "=" /\ q[4] = "="
  THEN IF IsB64(q[1]) /\ IsB64(q[2]) /\ B64Value(q[2]) % 16 = 0
       THEN Some(<<B64Value(q[1]) * 4 + B64Value(q[2]) \div 16>>)
       ELSE None
  ELSE IF q[4] = "="
  THEN IF IsB64(q[1]) /\ IsB64(q[2]) /\ IsB64(q[3]) /\ B64Value(q[3]) % 4 = 0
       THEN Some(<<B64Value(q[1]) * 4 + B64Value(q[2]) \div 16,
                   (B64Value(q[2]) % 16) * 16 + B64Value(q[3]) \div 4>>)
       ELSE None
  ELSE IF IsB64(q[1]) /\ IsB64(q[2]) /\ IsB64(q[3]) /\ IsB64(q[4])
  THEN Some(<<B64Value(q[1]) * 4 + B64Value(q[2]) \div 16,
              (B64Value(q[2]) % 16) * 16 + B64Value(q[3]) \div 4,
              (B64Value(q[3]) % 4) * 64 + B64Value(q[4])>>)
  ELSE None

\* general_purpose::STANDARD.decode
RECURSIVE b64_decode(_)
b64_decode(t) ==
  IF t = <<>> THEN Some(<<>>)
  ELSE IF Len(t) < 4 THEN None
  ELSE IF Len(t) = 4 THEN b64_final(t)
  ELSE LET q == SubSeq(t, 1, 4)
           rest == b64_decode(SubSeq(t, 5, Len(t)))
       IN  IF \E i \in 1..4 : ~IsB64(q[i]) THEN None
           ELSE IF rest = None THEN None
           ELSE Some(b64_final(q)[1] \o rest[1])

\* general_purpose::STANDARD.encode, as the clients and the test use it
RECURSIVE b64_encode(_)
b64_encode(b) ==
  IF b = <<>> THEN <<>>
  ELSE IF Len(b) = 1
  THEN <<B64Alphabet[b[1] \div 4 + 1], B64Alphabet[(b[1] % 4) * 16 + 1], "=", "=">>
  ELSE IF Len(b) = 2
  THEN <<B64Alphabet[b[1] \div 4 + 1],
         B64Alphabet[(b[1] % 4) * 16 + b[2] \div 16 + 1],
         B64Alphabet[(b[2] % 16) * 4 + 1], "=">>
  ELSE <<B64Alphabet[b[1] \div 4 + 1],
         B64Alphabet[(b[1] % 4) * 16 + b[2] \div 16 + 1],
         B64Alphabet[(b[2] % 16) * 4 + b[3] \div 64 + 1],
         B64Alphabet[(b[3] % 64) + 1]>> \o b64_encode(SubSeq(b, 4, Len(b)))

\* the characters of the credentials in use and their codes
AsciiChars == <<"a", "b", "p", ":", " ">>

AsciiCodes == <<97, 98, 112, 58, 32>>

Ascii(c) == AsciiCodes[CHOOSE i \in 1..Len(AsciiChars) : AsciiChars[i] = c]

as_bytes(t) == [i \in 1..Len(t) |-> Ascii(t[i])]

\* String::from_utf8 on the byte sequences in use: bytes below 128 are their
\* own characters, a byte 255 occurs in no UTF-8 text
from_utf8(b) == IF \E i \in 1..Len(b) : b[i] >= 128 THEN None ELSE Some(b)

strip_prefix(t, prefix) ==
  IF Len(t) >= Len(prefix) /\ SubSeq(t, 1, Len(prefix)) = prefix
  THEN Some(SubSeq(t, Len(prefix) + 1, Len(t)))
  ELSE None

BasicPrefix == <<"B", "a", "s", "i", "c", " ">>

Unauthorized == 401

Challenge == "Basic realm=\"Switcheroo WebDAV\""

unauthorized == [status |-> Unauthorized, www_authenticate |-> Some(Challenge), dav |-> FALSE]

\* state.handler.handle(req): the answer is the DAV handler's
handle == [status |-> 207, www_authenticate |-> None, dav |-> TRUE]

\* the credentials are compared with what was decoded up to the length of
\* the expected text only
webdav_handler_PrefixOnly(settings, authorization) ==
  IF settings.webdav_username = None \/ settings.webdav_password = None THEN handle
  ELSE IF authorization = None THEN unauthorized
  ELSE IF ~authorization[1].visible THEN unauthorized
  ELSE LET token == strip_prefix(authorization[1].text, BasicPrefix)
       IN  IF token = None THEN unauthorized
           ELSE LET decoded == b64_decode(token[1])
                IN  IF decoded = None THEN unauthorized
                    ELSE LET creds == from_utf8(decoded[1])
                             expected == as_bytes(settings.webdav_username[1]) \o <<Ascii(":")>>
                                           \o as_bytes(settings.webdav_password[1])
                         IN  IF creds = None THEN unauthorized
                             ELSE IF strip_prefix(creds[1], expected) = None THEN unauthorized
                             ELSE handle

\* webdav_handler: settings carries the two optional credentials,
\* authorization is the first Authorization header of the request if any,
\* with visible = FALSE for a value to_str rejects
webdav_handler(settings, authorization) ==
  IF settings.webdav_username = None \/ settings.webdav_password = None THEN handle
  ELSE IF authorization = None THEN unauthorized
  ELSE IF ~authorization[1].visible THEN unauthorized
  ELSE LET token == strip_prefix(authorization[1].text, BasicPrefix)
       IN  IF token = None THEN unauthorized
           ELSE LET decoded == b64_decode(token[1])
                IN  IF decoded = None THEN unauthorized
                    ELSE LET creds == from_utf8(decoded[1])
                             expected == as_bytes(settings.webdav_username[1]) \o <<Ascii(":")>>
                                           \o as_bytes(settings.webdav_password[1])
                         IN  IF creds = None THEN unauthorized
                             ELSE IF creds[1] # expected THEN unauthorized
                             ELSE handle

Usernames == {<<"a">>, <<"a", ":", "b">>, <<>>}

Passwords == {<<"p">>, <<"b", ":", "p">>, <<"p", "p">>}

DavSettings ==
  [webdav_username : {None} \cup {Some(u) : u \in Usernames},
   webdav_password : {None} \cup {Some(p) : p \in Passwords}]

\* what clients put after the scheme: encoded credentials, right or wrong,
\* with a byte that is no text, and the same tokens damaged
DecodedTexts ==
  {as_bytes(u) \o <<Ascii(":")>> \o as_bytes(p) : u \in Usernames, p \in Passwords}
    \cup {as_bytes(<<"a", ":", "p", " ">>), as_bytes(<<"a", "p">>), <<97, 58, 255>>, <<>>}

Unpadded(t) == SelectSeq(t, LAMBDA c : c # "=")

\* the last symbol before the padding replaced by the next of the alphabet:
\* the same bytes with bits left over
SpareBits(t) ==
  LET u == Unpadded(t)
  IN  IF u = <<>> \/ u = t THEN t
      ELSE [t EXCEPT ![Len(u)] = B64Alphabet[B64Value(u[Len(u)]) + 2]]

Tokens ==
  LET good == {b64_encode(b) : b \in DecodedTexts}
  IN  good \cup {Unpadded(t) : t \in good} \cup {SpareBits(t) : t \in good}
        \cup {t \o <<" ">> : t \in good} \cup {<<"*">> \o t : t \in good}

Schemes == {BasicPrefix, <<"b", "a", "s", "i", "c", " ">>, <<"B", "a", "s", "i", "c">>,
            <<"B", "a", "s", "i", "c", " ", " ">>, <<>>}

Authorizations ==
  {None} \cup {Some([visible |-> v, text |-> s \o t]) : v \in BOOLEAN, s \in Schemes, t \in Tokens}

DavInit ==
  /\ BootEngine(0, {{PathA}})
  /\ \E settings \in DavSettings, authorization \in Authorizations :
       call = Pending("webdav_handler",
                      [settings |-> settings, authorization |-> authorization])

WebdavHandler ==
  /\ Calling("webdav_handler")
  /\ Return(webdav_handler(call[1].args.settings, call[1].args.authorization))
  /\ EngineIdle

DavNext == WebdavHandler

DavSpec == DavInit /\ [][DavNext]_vars

\* C21: with both credentials configured a request reaches the DAV handler
\* exactly when its Authorization header is "Basic " followed by the base64
\* encoding of "username:password"; every other request is answered 401
\* with the Basic challenge and never reaches the DAV handler.  With a
\* credential missing every request reaches the DAV handler.
C21_BasicAuthGate ==
  Returned("webdav_handler") =>
    LET s == call[1].args.settings
        h == call[1].args.authorization
        ret == call[1].ret
    IN  IF s.webdav_username = None \/ s.webdav_password = None
        THEN ret.dav
        ELSE LET good == BasicPrefix \o b64_encode(as_bytes(s.webdav_username[1] \o <<":">>
                                                              \o s.webdav_password[1]))
             IN  /\ ret.dav <=> (h # None /\ h[1].visible /\ h[1].text = good)
                 /\ ~ret.dav => /\ ret.status = Unauthorized
                                /\ ret.www_authenticate = Some(Challenge)

C21_Witness ==
  /\ Returned("webdav_handler")
  /\ call[1].args.settings.webdav_username = Some(<<"a">>)
  /\ call[1].args.settings.webdav_password = Some(<<"p">>)
  /\ call[1].args.authorization = Some([visible |-> TRUE,
                                        text |-> BasicPrefix \o <<"Y", "T", "p", "w">>])
  /\ call[1].ret.dav

(***************************************************************************)
(* The bulk scan's drains and progress events (tasks.rs 83-146).           *)
(***************************************************************************)
\* the positions of the sent events with the given scan status
ScanEventsAt(status) ==
  {i \in 1..Len(sent) : sent[i].type = "scan" /\ sent[i].status = status}

\* what holds of the batch and of the events sent so far
ScanProgress ==
  /\ Len(batch["scan"]) <= BatchSize
  /\ Len(batch["scan"]) = BatchSize => pc["scan"] \in {"drainLock", "drain"}
  /\ \A i, j \in ScanEventsAt("scanning") : i < j => sent[i].count <= sent[j].count
  /\ \A i \in ScanEventsAt("scanning") : sent[i].count <= total_count
  /\ Cardinality(ScanEventsAt("complete")) = IF pc["scan"] = "done" THEN 1 ELSE 0
  /\ pc["scan"] = "done" =>
       /\ batch["scan"] = <<>>
       /\ \A i \in ScanEventsAt("complete") :
            /\ sent[i] = ScanComplete(total_count)
            /\ \A j \in ScanEventsAt("scanning") : j < i

\* what a step may do to the batch, the catalog and the events
ScanProgressStep ==
  /\ total_count' # total_count =>
       /\ total_count' = total_count + 1
       /\ Len(batch'["scan"]) = Len(batch["scan"]) + 1
       /\ games' = games /\ sent' = sent
  /\ Len(batch'["scan"]) < Len(batch["scan"]) =>
       /\ batch'["scan"] = <<>>
       /\ games' = games \o batch["scan"]
       /\ IF Len(batch["scan"]) >= BatchSize
          THEN sent' = Append(sent, Scanning(total_count))
          ELSE toWalk["scan"] = <<>> /\ sent' = sent
  /\ (games' # games /\ pc'["watch"] = pc["watch"]) =>
       Len(batch'["scan"]) < Len(batch["scan"])
  /\ (Len(sent') > Len(sent) /\ sent'[Len(sent')].status = "scanning") =>
       \/ pc["scan"] = "start" /\ sent'[Len(sent')].count = 0
       \/ Len(batch["scan"]) = BatchSize /\ batch'["scan"] = <<>>
  /\ (Len(sent') > Len(sent) /\ sent'[Len(sent')].status = "complete") =>
       /\ toWalk["scan"] = <<>> /\ batch["scan"] = <<>>
       /\ pc'["scan"] = "done"
  /\ pc["scan"] = "done" =>
       /\ pc'["scan"] = "done"
       /\ batch' = batch /\ total_count' = total_count

\* C22: during the bulk scan the built entries reach the catalog only in
\* drains: each time BatchSize entries have accumulated they are appended
\* and one Scanning event with the running total is published; the Scanning
\* counts never decrease; the partial batch left at the end of the walk is
\* appended; exactly one ScanComplete is published, after the last drain
\* and after every Scanning event.
C22_ScanDrainsAndProgress == []ScanProgress /\ [][ScanProgressStep]_vars

C22_Witness ==
  /\ pc["scan"] = "done"
  /\ total_count = BatchSize
  /\ \E i, j, k \in 1..Len(sent) :
       /\ i < j /\ j < k
       /\ sent[i] = Scanning(0)
       /\ sent[j] = Scanning(BatchSize)
       /\ sent[k] = ScanComplete(BatchSize)
  /\ Len(games) >= BatchSize

(***************************************************************************)
(* The watch loop's arms (tasks.rs 164-240).                               *)
(***************************************************************************)
\* the catalog positions holding an entry for the path
EntriesFor(gs, path) == {i \in 1..Len(gs) : gs[i].path = path}

\* the watch loop has finished a paired rename and built an entry for the
\* to path
RenameToBuilt ==
  /\ pc["watch"] = "idle"
  /\ w.ev.kind = "rename" /\ Len(w.ev.paths) = 2
  /\ w.game # None

\* C23: after a rename whose to path is a qualifying regular file was
\* handled, the catalog holds exactly one entry for the to path, the one
\* just built, also when the to path had an entry before the rename.
C23_RenameLeavesOneEntryForTo ==
  RenameToBuilt =>
    /\ Cardinality(EntriesFor(games, w.ev.paths[2])) = 1
    /\ \A i \in EntriesFor(games, w.ev.paths[2]) : games[i] = w.game[1]

\* the watch loop leaves the create/modify arm having built an entry
UpsertStep == pc["watch"] = "cmUpsert" /\ pc'["watch"] # "cmUpsert"

CreateModifyHandled ==
  /\ pc["watch"] = "idle"
  /\ w.ev.kind \in {"create", "modify"}
  /\ w.game # None

\* the entry is built for the notification's path from the file and the
\* metadata as they are under the metadata lock
UpsertBuilds ==
  (pc["watch"] = "cmWaitMeta" /\ pc'["watch"] # "cmWaitMeta") =>
    /\ w'.game = process_entry(w.ev.paths[1], files, fsize, mem)
    /\ w'.game # None => w'.game[1].path = w.ev.paths[1]
    /\ games' = games /\ sent' = sent

UpsertReplacesOrAppends ==
  (UpsertStep /\ Cardinality(EntriesFor(games, w.game[1].path)) <= 1) =>
    LET g == w.game[1]
        E == EntriesFor(games, g.path)
    IN  /\ IF E # {}
           THEN /\ Len(games') = Len(games)
                /\ \A i \in 1..Len(games) : games'[i] = IF i \in E THEN g ELSE games[i]
           ELSE games' = Append(games, g)
        /\ sent' = Append(sent, EntryUpdated(g))
        /\ w'.pubs = <<EntryUpdated(g)>>
        /\ pc'["watch"] = "idle"

\* C24: a create or modify notification for a qualifying regular file whose
\* path has at most one catalog entry replaces that entry at its position
\* by the rebuilt entry, leaving the length and the other entries as they
\* were, or appends the rebuilt entry when there was none; exactly one
\* EntryUpdated with the rebuilt entry is published.
C24_UpsertInPlaceOrAppend ==
  /\ [](CreateModifyHandled => w.pubs = <<EntryUpdated(w.game[1])>>)
  /\ [][UpsertBuilds /\ UpsertReplacesOrAppends]_vars

C24_Witness ==
  /\ CreateModifyHandled
  /\ w.ev.kind = "modify"
  /\ pc["scan"] = "done"
  /\ Len(games) = 2
  /\ games[1] = w.game[1] /\ games[1].size = 2
  /\ games[2].path # games[1].path

\* the watch loop leaves the remove arm
RemoveStep == pc["watch"] = "rmRemove" /\ pc'["watch"] = "idle"

\* C25: handling a remove notification leaves no catalog entry with the
\* removed path and publishes exactly one EntryRemoved with that path when
\* an entry matched; when none matched the catalog is unchanged and no
\* event is published.
C25_RemoveErasesPath ==
  [][RemoveStep =>
       LET path == w.ev.paths[1]
       IN  /\ EntriesFor(games', path) = {}
           /\ IF EntriesFor(games, path) # {}
              THEN /\ sent' = Append(sent, EntryRemoved(path))
                   /\ w'.pubs = <<EntryRemoved(path)>>
              ELSE games' = games /\ sent' = sent /\ w'.pubs = <<>>]_vars

(***************************************************************************)
(* NotifySpec: the bulk scan and the watch loop under every notification   *)
(* the loop's match distinguishes, a paired rename with one path included. *)
(***************************************************************************)
NotifyInit == Boot(MaxFsOps, InitialFiles)

NotifyNext ==
  \/ FsNext
  \/ \E p \in Paths : FsRenameHalf(p)
  \/ ScanNext \/ WatchNext

NotifySpec == NotifyInit /\ [][NotifyNext]_vars

\* a notification the match sends to no arm, or whose path fails is_file()
Skipped(ev) ==
  \/ ev.kind \notin {"create", "modify", "rename", "remove"}
  \/ ev.kind = "rename" /\ Len(ev.paths) # 2
  \/ ev.kind \in {"create", "modify"} /\ ev.paths[1] \notin files

\* the loop takes the next notification
RecvStep == pc["watch"] = "idle" /\ std_rx # <<>> /\ Len(std_rx') < Len(std_rx)

\* process_entry finds the extension unrecognized or the file gone
Unclassified ==
  /\ pc["watch"] = "cmWaitMeta" /\ pc'["watch"] # "cmWaitMeta"
  /\ process_entry(w.ev.paths[1], files, fsize, mem) = None

SkippedHandled ==
  /\ pc["watch"] = "idle"
  /\ \/ w.ev.kind \notin {"create", "modify", "rename", "remove"}
     \/ w.ev.kind = "rename" /\ Len(w.ev.paths) # 2
     \/ w.ev.kind \in {"create", "modify"} /\ w.game = None

\* C26: a notification of a kind other than create, modify, paired rename
\* and remove, a paired rename that does not carry exactly two paths, and
\* a create or modify whose path is no regular file or has no recognized
\* extension leave the catalog unchanged and publish no event.
C26_SkippedNotificationsChangeNothing ==
  /\ [](SkippedHandled => w.pubs = <<>>)
  /\ [][/\ (RecvStep /\ Skipped(Head(std_rx))) =>
             games' = games /\ sent' = sent /\ pc'["watch"] = "idle"
        /\ Unclassified =>
             games' = games /\ sent' = sent /\ pc'["watch"] = "idle"]_vars

C26_WitnessOtherKind ==
  /\ pc["watch"] = "idle" /\ w.ev.kind = "other" /\ w.ev.paths[1] \in files
  /\ std_rx = <<>> /\ w.pubs = <<>>

\* C27: the watch loop takes the notifications one at a time in the order
\* received; the next one is taken only after the one before has done its
\* catalog change and publication, also while the loop waits for the
\* metadata lock; every EntryUpdated and EntryRemoved published concerns
\* the notification being handled.
C27_NotificationsHandledInOrder ==
  /\ [](pc["watch"] = "idle" => gamesOwner # "watch" /\ metaOwner # "watch")
  /\ [][/\ Len(std_rx') < Len(std_rx) =>
             /\ pc["watch"] = "idle"
             /\ w'.ev = Head(std_rx) /\ std_rx' = Tail(std_rx)
             /\ w'.pubs = <<>>
        /\ Len(std_rx') >= Len(std_rx) => SubSeq(std_rx', 1, Len(std_rx)) = std_rx
        /\ pc["watch"] \notin {"idle", "setup", "dead"} => w'.ev = w.ev
        /\ (sent' # sent /\ sent'[Len(sent')].status \in {"update", "remove"}) =>
             /\ pc["watch"] \notin {"idle", "setup", "dead"}
             /\ w'.pubs = Append(w.pubs, sent'[Len(sent')])
             /\ \/ sent'[Len(sent')].path \in {w.ev.paths[i] : i \in 1..Len(w.ev.paths)}
                \/ /\ sent'[Len(sent')].game # None
                   /\ sent'[Len(sent')].game[1].path
                        \in {w.ev.paths[i] : i \in 1..Len(w.ev.paths)}]_vars

C27_Witness ==
  /\ pc["watch"] = "cmWaitMeta"
  /\ metaOwner = "scan"
  /\ std_rx # <<>>

\* the watch loop is between the removal and the insertion of a rename
InRenameGap == pc["watch"] \in {"rnWaitMeta", "rnLock2"} /\ w.tracked

\* C28: while a rename of a tracked path is handled, the removal and the
\* insertion are two critical sections of the catalog lock with the
\* metadata-lock acquisition between them: in between the loop does not
\* hold the catalog lock, the removal is published and the insertion is
\* not, and a reader can lock the catalog and see neither path.
C28_RenameGapIsObservable ==
  InRenameGap =>
    /\ gamesOwner # "watch"
    /\ w.pubs = <<EntryRemoved(w.ev.paths[1])>>
    /\ (gamesOwner = NoOwner /\ pc["reader"] = "idle") => ENABLED ReaderLock

C28_Witness ==
  /\ InRenameGap
  /\ pc["reader"] = "read" /\ gamesOwner = "reader"
  /\ EntriesFor(games, w.ev.paths[1]) = {}
  /\ EntriesFor(games, w.ev.paths[2]) = {}
  /\ w.ev.paths[2] \in files

(***************************************************************************)
(* SegmentSpec: parse_filename on the file names process_entry gives it, a *)
(* name followed by bracketed segments and a container extension.          *)
(***************************************************************************)
MaxSegments == 3

IdLower == <<"0", "1", "0", "0", "a", "b", "c", "d", "0", "0", "0", "1", "e", "0", "0", "0">>

IdUpper == <<"0", "1", "0", "0", "A", "B", "C", "D", "0", "0", "0", "1", "E", "8", "0", "0">>

\* what stands between the brackets: identifiers, texts one character
\* short, one long and one off, version tags and category markers
SegmentContents ==
  { IdLower, IdUpper,
    SubSeq(IdUpper, 1, IdLen - 1), IdUpper \o <<"0">>,
    [IdLower EXCEPT ![IdLen] = "g"],
    <<"v", "0">>, <<"v", "1">>, <<"v">>, <<"v", "0", "0">>, <<"v", "1", "a">>,
    <<"U", "P", "D">>, <<"D", "L", "C">>, <<"u", "p", "d">> }

RECURSIVE SegmentLists(_)
SegmentLists(n) ==
  IF n = 0 THEN {<<>>}
  ELSE LET shorter == SegmentLists(n - 1)
       IN  shorter \cup {Append(l, c) : l \in {x \in shorter : Len(x) = n - 1},
                                        c \in SegmentContents}

\* a segment that is never closed
OpenTails == {<<>>, <<"[", "D", "L", "C">>, <<"[">> \o IdUpper}

RECURSIVE Bracketed(_)
Bracketed(segs) ==
  IF segs = <<>> THEN <<>>
  ELSE <<"[">> \o Head(segs) \o <<"]">> \o Bracketed(Tail(segs))

SegmentedName(segs, tail, suffix) ==
  <<"Z", "e", " ">> \o Bracketed(segs) \o tail \o suffix

SegmentInit ==
  /\ BootEngine(0, {{PathA}})
  /\ \E segs \in SegmentLists(MaxSegments), tail \in OpenTails,
        suffix \in NameSuffixes \ {<<>>} :
       call = Pending("parse_segments",
                      [segs |-> segs, tail |-> tail, suffix |-> suffix])

ParseSegments ==
  /\ Calling("parse_segments")
  /\ LET a == call[1].args
     IN  Return(parse_filename(SegmentedName(a.segs, a.tail, a.suffix)))
  /\ EngineIdle

SegmentNext == ParseSegments

SegmentSpec == SegmentInit /\ [][SegmentNext]_vars

\* exactly 16 hexadecimal characters
IsTitleId(seg) ==
  /\ Len(seg) = 16
  /\ \A i \in 1..Len(seg) : seg[i] \in {DigitChars[k] : k \in 1..10}
                              \cup {HexLower[k] : k \in 1..6} \cup {HexUpper[k] : k \in 1..6}

\* C29: of several bracketed segments of exactly 16 hexadecimal characters
\* the last one, in upper case, is the title id; a segment of another
\* length or with a character that is no hexadecimal digit never sets it.
C29_LastTitleIdWins ==
  Returned("parse_segments") =>
    LET segs == call[1].args.segs
        ids == {i \in 1..Len(segs) : IsTitleId(segs[i])}
        r == call[1].ret
    IN  IF ids = {} THEN r.title_id = None
        ELSE \E i \in ids :
               /\ \A j \in ids : j <= i
               /\ r.title_id = Some(to_uppercase(segs[i]))

C29_Witness ==
  /\ Returned("parse_segments")
  /\ call[1].args.segs = <<IdUpper, IdLower, [IdLower EXCEPT ![IdLen] = "g"]>>
  /\ call[1].ret.title_id = Some(to_uppercase(IdLower))

\* "v" followed only by decimal digits
IsVersionTag(seg) ==
  /\ seg # <<>> /\ seg[1] = "v"
  /\ \A i \in 2..Len(seg) : seg[i] \in {DigitChars[k] : k \in 1..10}

\* the category a segment sets, if any
CategorySet(seg) ==
  IF IsVersionTag(seg) /\ seg # <<"v", "0">> THEN Some("Update")
  ELSE IF seg = <<"U", "P", "D">> THEN Some("Update")
  ELSE IF seg = <<"D", "L", "C">> THEN Some("DLC")
  ELSE None

\* C30: the category is the one set by the last category-setting segment
\* from the left, these being a version tag other than exactly v0 (Update),
\* UPD (Update) and DLC (DLC); v0 changes nothing; the category is Base
\* exactly when the name has no category-setting segment.
C30_LastCategorySegmentWins ==
  Returned("parse_segments") =>
    LET segs == call[1].args.segs
        setting == {i \in 1..Len(segs) : CategorySet(segs[i]) # None}
        r == call[1].ret
    IN  /\ r.category = "Base" <=> setting = {}
        /\ setting # {} =>
             \E i \in setting :
               /\ \A j \in setting : j <= i
               /\ r.category = CategorySet(segs[i])[1]

C30_Witness ==
  /\ Returned("parse_segments")
  /\ call[1].args.segs = <<<<"D", "L", "C">>, <<"v", "1">>, <<"v", "0">>>>
  /\ call[1].ret.category = "Update"
  /\ call[1].ret.version = Some(<<"v", "0">>)

(***************************************************************************)
(* metadata.rs 56-88, 148-155 and scanner.rs 119-132: the title records as *)
(* load_local_data indexes them, the two lookups, and the fields           *)
(* process_entry takes from them.  Identifiers are whole strings here.     *)
(***************************************************************************)
\* str::to_uppercase on the identifiers in use
id_to_uppercase(s) ==
  CASE s = "0100ab" -> "0100AB"
    [] s = "0100Cd" -> "0100CD"
    [] s = "0100cd" -> "0100CD"
    [] OTHER -> s

\* the loop of lines 60-74 inserting every record under the identifier as
\* the document spells it
insert_titles_AsSpelled(data) == {data}

\* lines 58-76: the maps the loop `for (id, val) in data` can build with
\* map.insert(id.to_uppercase(), info); of two keys that differ in case
\* only, the one the HashMap iteration yields last stays
insert_titles(data) ==
  LET keys == {id_to_uppercase(id) : id \in DOMAIN data}
  IN  {m \in [keys -> {data[id] : id \in DOMAIN data}] :
         \A k \in keys : \E id \in DOMAIN data : id_to_uppercase(id) = k /\ m[k] = data[id]}

\* MetadataProvider::get_title_info
get_title_info(titles, title_id) ==
  IF id_to_uppercase(title_id) \in DOMAIN titles
  THEN Some(titles[id_to_uppercase(title_id)])
  ELSE None

\* the version history asked for only when a title record exists
enhance_NeedsRecord(name, title_id, metadata) ==
  IF metadata # None /\ title_id # None
  THEN LET info == get_title_info(metadata[1].titles, title_id[1])
       IN  [name |-> IF info # None /\ info[1].name # None THEN info[1].name[1] ELSE name,
            publisher |-> IF info # None THEN info[1].publisher ELSE None,
            latest_version |-> IF info # None
                               THEN get_latest_version(metadata[1].versions, title_id[1])
                               ELSE None]
  ELSE [name |-> name, publisher |-> None, latest_version |-> None]

\* process_entry, lines 119-132: name, publisher and latest_version
enhance(name, title_id, metadata) ==
  IF metadata # None /\ title_id # None
  THEN LET info == get_title_info(metadata[1].titles, title_id[1])
       IN  [name |-> IF info # None /\ info[1].name # None THEN info[1].name[1] ELSE name,
            publisher |-> IF info # None THEN info[1].publisher ELSE None,
            latest_version |-> get_latest_version(metadata[1].versions, title_id[1])]
  ELSE [name |-> name, publisher |-> None, latest_version |-> None]

\* the spellings of two identifiers
IdSpellings == {"0100ab", "0100AB", "0100Cd", "0100CD"}

TitleRecords ==
  {[name |-> Some("Ze Deluxe"), publisher |-> Some("Acme")],
   [name |-> None, publisher |-> Some("Bolt")],
   [name |-> Some(""), publisher |-> None]}

MaxRecords == 2

\* titles documents: up to MaxRecords records under keys in any spelling
TitleDocs ==
  UNION {[ks -> TitleRecords] :
           ks \in {k \in SUBSET (IdSpellings \ {"0100CD"}) : Cardinality(k) <= MaxRecords}}

\* versions documents, their keys in any spelling
VersionDocs ==
  {<<>>} \cup {[i \in {k} |-> h] :
                 k \in {"0100ab", "0100AB", "0100cd"},
                 h \in {{<<"0">>, <<"6", "5", "5", "3", "6">>}, {<<"x">>}}}
         \cup {[i \in {"0100ab", "0100AB"} |->
                  IF i = "0100ab" THEN {<<"9">>} ELSE {<<"1", "0">>}]}

EnhanceInit ==
  /\ BootEngine(0, {{PathA}})
  /\ \E data \in TitleDocs, versions \in VersionDocs,
        title_id \in {None} \cup {Some(i) : i \in IdSpellings},
        version \in {None, Some(<<"v", "0">>), Some(<<"v", "9">>)},
        with \in BOOLEAN :
       call = Pending("enhance",
                      [data |-> data, versions |-> versions, title_id |-> title_id,
                       version |-> version, with |-> with, name |-> "Ze"])

\* load_local_data has indexed the documents; process_entry takes its
\* fields from the provider, if it is given one
Enhance ==
  /\ Calling("enhance")
  /\ LET a == call[1].args
     IN  \E titles \in insert_titles(a.data) :
           LET provider == [titles |-> titles, versions |-> a.versions]
           IN  Return([provider |-> provider,
                       game |-> enhance(a.name, a.title_id,
                                        IF a.with THEN Some(provider) ELSE None)])
  /\ EngineIdle

EnhanceNext == Enhance

EnhanceSpec == EnhanceInit /\ [][EnhanceNext]_vars

\* the identifiers that are one identifier up to case
SameId(a, b) == id_to_uppercase(a) = id_to_uppercase(b)

\* C31: with a metadata snapshot and a title id, the name is the title
\* record's name when there is a record with a name and the classifier's
\* otherwise, the publisher is the record's (absent without a record), and
\* latest_version is the version-history lookup for the id, with or without
\* a title record and whatever the entry's own version tag; without a
\* snapshot or a title id the name is the classifier's and publisher and
\* latest_version are absent.
C31_FieldsFromMetadata ==
  Returned("enhance") =>
    LET a == call[1].args
        g == call[1].ret.game
        p == call[1].ret.provider
    IN  IF a.with /\ a.title_id # None
        THEN LET recs == {k \in DOMAIN p.titles : SameId(k, a.title_id[1])}
             IN  /\ recs = {} => g.name = a.name /\ g.publisher = None
                 /\ \A k \in recs :
                      /\ g.name = IF p.titles[k].name # None
                                  THEN p.titles[k].name[1] ELSE a.name
                      /\ g.publisher = p.titles[k].publisher
                 /\ g.latest_version = get_latest_version(p.versions, a.title_id[1])
        ELSE g = [name |-> a.name, publisher |-> None, latest_version |-> None]

C31_Witness ==
  /\ Returned("enhance")
  /\ call[1].args.with /\ call[1].args.title_id = Some("0100AB")
  /\ call[1].args.version = Some(<<"v", "0">>)
  /\ DOMAIN call[1].ret.provider.titles = {"0100CD"}
  /\ call[1].ret.game.name = "Ze"
  /\ call[1].ret.game.latest_version = Some(<<"6", "5", "5", "3", "6">>)

\* a map without one of its keys
Without(m, k) == [i \in DOMAIN m \ {k} |-> m[i]]

\* C33: every title record is stored under its identifier in upper case,
\* however the document spells it, and get_title_info finds it for a query
\* in any spelling; the version history keeps the keys of the file and is
\* looked up under the lower-case identifier only, so a key of
\* versions.json that is not lower case is never found.
C33_TitlesUpperVersionsLower ==
  Returned("enhance") =>
    LET a == call[1].args
        p == call[1].ret.provider
    IN  /\ DOMAIN p.titles = {id_to_uppercase(id) : id \in DOMAIN a.data}
        /\ \A id \in DOMAIN a.data, q \in IdSpellings :
             SameId(q, id) =>
               /\ get_title_info(p.titles, q) # None
               /\ \E src \in DOMAIN a.data :
                    SameId(src, id) /\ get_title_info(p.titles, q) = Some(a.data[src])
        /\ p.versions = a.versions
        /\ \A k \in DOMAIN p.versions, q \in IdSpellings :
             k # to_lowercase(k) =>
               get_latest_version(p.versions, q)
                 = get_latest_version(Without(p.versions, k), q)

C33_Witness ==
  /\ Returned("enhance")
  /\ DOMAIN call[1].args.data = {"0100ab"}
  /\ DOMAIN call[1].args.versions = {"0100AB"}
  /\ call[1].args.with /\ call[1].args.title_id = Some("0100AB")
  /\ call[1].ret.game.publisher # None
  /\ call[1].ret.game.latest_version = None

(***************************************************************************)
(* scanner.rs 134-164: the image of an entry.  A file is named by its      *)
(* directory ("images" under data_dir, or the game file's own directory),  *)
(* its stem and its extension; exists is the set of files on disk.         *)
(***************************************************************************)
image_exts == <<"jpg", "png", "jpeg", "webp">>

ImageFile(dir, stem, ext) == [dir |-> dir, stem |-> stem, ext |-> ext]

\* format!("/images/{}.{}", tid, img_ext)
CacheUrl(tid, ext) == [url |-> "/images/", stem |-> tid, ext |-> ext]

\* img_path.strip_prefix(root_dir)
RelativeImage(stem, ext) == [url |-> "", stem |-> stem, ext |-> ext]

\* the first extension of image_exts, from position i on, whose file
\* exists in dir
RECURSIVE first_existing(_, _, _, _)
first_existing(dir, stem, exists, i) ==
  IF i > Len(image_exts) THEN None
  ELSE IF ImageFile(dir, stem, image_exts[i]) \in exists THEN Some(image_exts[i])
  ELSE first_existing(dir, stem, exists, i + 1)

\* the file beside the game looked for before the cache
image_url_SiblingFirst(title_id, stem, exists) ==
  LET local == first_existing("games", stem, exists, 1)
      cached == IF title_id # None
                THEN first_existing("images", title_id[1], exists, 1) ELSE None
  IN  IF local # None THEN Some(RelativeImage(stem, local[1]))
      ELSE IF cached # None THEN Some(CacheUrl(title_id[1], cached[1]))
      ELSE None

\* process_entry, lines 134-164
image_url(title_id, stem, exists) ==
  LET cached == IF title_id # None
                THEN first_existing("images", title_id[1], exists, 1) ELSE None
      local == first_existing("games", stem, exists, 1)
  IN  IF cached # None THEN Some(CacheUrl(title_id[1], cached[1]))
      ELSE IF local # None THEN Some(RelativeImage(stem, local[1]))
      ELSE None

\* image files that may lie in the cache and beside the game "Ze": the
\* eight candidates, and files of another title, stem or spelling
ImageFiles ==
  {ImageFile(d, IF d = "images" THEN "0100AB" ELSE "Ze", image_exts[i]) :
     d \in {"images", "games"}, i \in 1..Len(image_exts)}
    \cup {ImageFile("images", "0100ab", "jpg"), ImageFile("images", "0100AB", "JPG"),
          ImageFile("games", "Zf", "jpg")}

ImageInit ==
  /\ BootEngine(0, {{PathA}})
  /\ \E title_id \in {None, Some("0100AB")}, exists \in SUBSET ImageFiles :
       call = Pending("image_url", [title_id |-> title_id, exists |-> exists])

ImageUrl ==
  /\ Calling("image_url")
  /\ Return(image_url(call[1].args.title_id, "Ze", call[1].args.exists))
  /\ EngineIdle

ImageNext == ImageUrl

ImageSpec == ImageInit /\ [][ImageNext]_vars

\* the candidates in the order of precedence, each with its reference
ImageCandidates(title_id) ==
  (IF title_id = None THEN <<>>
   ELSE [i \in 1..4 |-> [file |-> ImageFile("images", title_id[1], image_exts[i]),
                         ref |-> CacheUrl(title_id[1], image_exts[i])]])
  \o [i \in 1..4 |-> [file |-> ImageFile("games", "Ze", image_exts[i]),
                      ref |-> RelativeImage("Ze", image_exts[i])]]

\* C32: the image reference is that of the first existing candidate in the
\* order: the cache files images/{TITLE_ID}.jpg, .png, .jpeg, .webp (only
\* with a title id; the reference is the cached-image URL), then the files
\* {stem}.jpg, .png, .jpeg, .webp beside the game (the reference is the
\* relative path); it is absent exactly when no candidate exists.
C32_FirstExistingImage ==
  Returned("image_url") =>
    LET a == call[1].args
        c == ImageCandidates(a.title_id)
        found == {i \in 1..Len(c) : c[i].file \in a.exists}
    IN  /\ call[1].ret = None <=> found = {}
        /\ \A i \in found :
             (\A j \in found : i <= j) => call[1].ret = Some(c[i].ref)

C32_Witness ==
  /\ Returned("image_url")
  /\ call[1].args.title_id # None
  /\ call[1].args.exists = {ImageFile("images", "0100AB", "webp"),
                            ImageFile("games", "Ze", "jpg"),
                            ImageFile("images", "0100ab", "jpg")}
  /\ call[1].ret = Some(CacheUrl("0100AB", "webp"))

(***************************************************************************)
(* The events of the two syncs and of the two scans (tasks.rs 12-33,       *)
(* 92-146, api.rs 46-75).                                                  *)
(***************************************************************************)
\* the step sends an event
Sends == Len(sent') = Len(sent) + 1

Sent == sent'[Len(sent')]

\* a sync() returns in this step
SyncReturns(caller) == pc[caller] = "net" /\ pc'[caller] # "net"

\* C34: SyncComplete is published by the periodic sync only, and only
\* after a sync() that returned Ok; a sync() that returned an error
\* publishes nothing; after a failed manual sync there is no rescan and
\* the catalog is as it was.
C34_SyncCompleteOnlyAfterPeriodicOk ==
  [][/\ (Sends /\ Sent = SyncComplete) =>
          /\ SyncReturns("periodic")
          /\ syncOut'[1].caller = "periodic" /\ syncOut'[1].result = "Ok"
     /\ \A c \in {"periodic", "manual"} :
          (SyncReturns(c) /\ syncOut'[1].result # "Ok") => sent' = sent
     /\ SyncReturns("manual") =>
          /\ sent' = sent /\ games' = games
          /\ syncOut'[1].result # "Ok" =>
               /\ pc'["manual"] = "idle"
               /\ batch' = batch /\ toWalk' = toWalk
               /\ "manual" \notin {metaWaiters'[i] : i \in 1..Len(metaWaiters')}
     /\ (pc["manual"] = "idle" /\ manualLeft = 0) => pc'["manual"] = "idle"]_vars

C34_Witness ==
  /\ syncOut # None
  /\ syncOut[1].caller = "manual" /\ syncOut[1].result # "Ok"
  /\ pc["manual"] = "idle"
  /\ games # <<>>
  /\ \E i \in 1..Len(sent) : sent[i] = SyncComplete
  /\ \A i \in 1..Len(sent) : sent[i] = SyncComplete \/ sent[i].type = "scan"

\* C35: the count of a ScanComplete event is the number of entries its
\* scan built and placed in the catalog, for the bulk scan and for the
\* rescan of a manual sync.
C35_ScanCompleteCountsEntries ==
  [][(Sends /\ Sent.type = "scan" /\ Sent.status = "complete") =>
       IF pc["manual"] = "replace" /\ pc'["manual"] = "idle"
       THEN games' = batch["manual"] /\ Sent.count = Len(batch["manual"])
       ELSE /\ pc["scan"] = "walk" /\ pc'["scan"] = "done"
            /\ batch["scan"] = <<>> /\ Sent.count = total_count]_vars

\* C36: the bulk scan builds no entry before the initial load of the
\* metadata store has completed: the initialization task is granted the
\* metadata lock before the bulk scan is.
C36_ScanAfterInitialLoad ==
  /\ metaOwner = "scan" => pc["init"] = "done"
  /\ total_count > 0 => pc["init"] = "done"

\* a scan, a rescan or a sync holds the metadata lock
MetaHeldByOther == metaOwner \in {"scan", "manual", "periodic", "init"}

ReadFiles == InitialFiles \cup {Paths}

ReadInit == Boot(0, ReadFiles)

ReadNext == InitTaskNext \/ ScanNext \/ ReaderNext

ReadSpec == ReadInit /\ [][ReadNext]_vars

AbsPath(comps) == [absolute |-> TRUE, comps |-> comps]

games_dir == AbsPath(<<"srv", "games">>)

\* Path::join: an absolute argument replaces the base
join(base, p) ==
  IF p.absolute THEN p ELSE [base EXCEPT !.comps = @ \o p.comps]

\* Path::starts_with: whole components, compared as written
starts_with(p, base) ==
  /\ p.absolute = base.absolute
  /\ Len(p.comps) >= Len(base.comps)
  /\ SubSeq(p.comps, 1, Len(base.comps)) = base.comps

\* the regular files on the disk, and the directories above them
DiskFiles ==
  {<<"srv", "games", "a.nsp">>, <<"srv", "games", "sub", "b.xci">>,
   <<"srv", "secret">>, <<"etc", "passwd">>}

DiskDirs == UNION {{SubSeq(f, 1, n) : n \in 0..(Len(f) - 1)} : f \in DiskFiles}

\* the file the operating system finds at the path, if any
RECURSIVE lookup(_, _)
lookup(cur, comps) ==
  IF cur \notin DiskDirs THEN IF comps = <<>> /\ cur \in DiskFiles THEN Some(cur) ELSE None
  ELSE IF comps = <<>> THEN None
  ELSE IF Head(comps) = ".."
  THEN lookup(IF cur = <<>> THEN cur ELSE SubSeq(cur, 1, Len(cur) - 1), Tail(comps))
  ELSE lookup(Append(cur, Head(comps)), Tail(comps))

\* File::open
open(p) == lookup(<<>>, p.comps)

Forbidden == 403

NotFound == 404

\* download_file: the status, and the file that was opened
download_file(path) ==
  LET file_path == join(games_dir, path)
  IN  IF ~starts_with(file_path, games_dir)
      THEN [status |-> Forbidden, opened |-> None]
      ELSE LET file == open(file_path)
           IN  IF file = None THEN [status |-> NotFound, opened |-> None]
               ELSE [status |-> 200, opened |-> file]

MaxComponents == 3

PathComponents == {"..", "a.nsp", "sub", "b.xci", "secret", "srv", "games", "etc", "passwd"}

RECURSIVE ComponentLists(_)
ComponentLists(n) ==
  IF n = 0 THEN {<<>>}
  ELSE LET shorter == ComponentLists(n - 1)
       IN  shorter \cup {Append(l, c) : l \in {x \in shorter : Len(x) = n - 1},
                                        c \in PathComponents}

RequestPaths == [absolute : BOOLEAN, comps : ComponentLists(MaxComponents)]

DownloadInit ==
  /\ BootEngine(0, {{PathA}})
  /\ \E path \in RequestPaths : call = Pending("download_file", [path |-> path])

DownloadFile ==
  /\ Calling("download_file")
  /\ Return(download_file(call[1].args.path))
  /\ EngineIdle

DownloadNext == DownloadFile

DownloadSpec == DownloadInit /\ [][DownloadNext]_vars

\* C39: download_file serves only files inside the storage root: for every
\* requested path, absolute ones and ones with ".." components included,
\* the file opened lies under games_dir or the answer is 403 or 404.
C39_DownloadsStayUnderRoot ==
  Returned("download_file") =>
    \/ call[1].ret.status \in {Forbidden, NotFound}
    \/ /\ call[1].ret.opened # None
       /\ Len(call[1].ret.opened[1]) > Len(games_dir.comps)
       /\ SubSeq(call[1].ret.opened[1], 1, Len(games_dir.comps)) = games_dir.comps

====
